---- MODULE Spec2Model ----
(***************************************************************************)
(* A model of the luke-doku engine: the row-band ledger and its overlap    *)
(* masks, the backtracking searcher and `solve`, the puzzle generator,     *)
(* and the grid permutation group with its canonical minimiser.            *)
(*                                                                         *)
(* Bit sets are modelled by the set of the positions of their 1 bits:      *)
(* a Bits27 is a subset of 0..26, a Bits9 of 0..8, a Bits3 of 0..2.        *)
(* `&` is \cap, `|` is \cup, `<<` and `>>` move the positions.             *)
(***************************************************************************)
EXTENDS Integers, Sequences, FiniteSets, TLC

\* ------------------------------------------------------------------ bits

Shl(bits, k) == {x + k : x \in bits}

Shr(bits, k) == {x - k : x \in {y \in bits : y >= k}}

DigitBits == [d \in 0..7 |-> {j \in 0..2 : (d \div (IF j = 0 THEN 1 ELSE IF j = 1 THEN 2 ELSE 4)) % 2 = 1}]

\* An octal literal, most significant digit first: Oct(<<7,0,7>>) is 0o707.
Oct(ds) == UNION {Shl(DigitBits[ds[k]], 3 * (Len(ds) - k)) : k \in 1..Len(ds)}

Bits3_ONES == 0..2

Bits9_ONES == 0..8

Bits27_ONES == 0..26

Bits27_ZERO == {}

Nums == 1..9

Bands == 0..2

Locs == 0..80

\* ------------------------------------------------------------ solve/masks

\* A static lookup table: a function whose values are all computed when
\* the table is made.
StaticTable(f) == f @@ <<>>

or_triple(bits, nonzero_bit) == IF bits = {} THEN {} ELSE {nonzero_bit}

or_triples_impl(bits) ==
  or_triple(bits \cap (0..2), 0) \cup
  or_triple(Shr(bits, 3) \cap (0..2), 1) \cup
  or_triple(Shr(bits, 6) \cap (0..2), 2)

OR_TRIPLES == StaticTable([b \in SUBSET Bits9_ONES |-> or_triples_impl(b)])

or_triples(bits) == OR_TRIPLES[bits]

to_bits9s(locs) ==
  << locs \cap Bits9_ONES, Shr(locs, 9) \cap Bits9_ONES, Shr(locs, 18) \cap Bits9_ONES >>

from_bits3s(b0, b1, b2) == b0 \cup Shl(b1, 3) \cup Shl(b2, 6)

from_bits9s(b0, b1, b2) == b0 \cup Shl(b1, 9) \cup Shl(b2, 18)

or_triples_of(r) == from_bits3s(or_triples(r[1]), or_triples(r[2]), or_triples(r[3]))

band_locs_to_blk_rows(locs) == or_triples_of(to_bits9s(locs))

band_locs_to_blk_cols(locs) ==
  (locs \cup Shr(locs, 9) \cup Shr(locs, 18)) \cap Bits9_ONES

rows_to_band_mask(rows) ==
  (IF 0 \in rows THEN Oct(<<7,7,7>>) ELSE {}) \cup
  (IF 1 \in rows THEN Oct(<<7,7,7,0,0,0>>) ELSE {}) \cup
  (IF 2 \in rows THEN Oct(<<7,7,7,0,0,0,0,0,0>>) ELSE {})

ROWS_TO_BAND_MASK == StaticTable([rows \in SUBSET Bits3_ONES |-> rows_to_band_mask(rows)])

solved_blk_rows_to_band_locs_mask(solved_band_locs) ==
  ROWS_TO_BAND_MASK[or_triples(solved_band_locs)]

blk_rows_same_band_mask_for_row(blk_rows, row) ==
  LET row_bits == Shl({0, 1, 2}, 3 * row) \cap blk_rows
      shifted  == Shr(row_bits, 3 * row)
  IN  IF Cardinality(row_bits) = 0 THEN {}
      ELSE IF Cardinality(row_bits) = 1 THEN
        IF shifted = {0} THEN Oct(<<7,7,0,7,7,0,7,7,0>>) \cup Shl(Oct(<<0,0,7>>), 9 * row)
        ELSE IF shifted = {1} THEN Oct(<<7,0,7,7,0,7,7,0,7>>) \cup Shl(Oct(<<0,7,0>>), 9 * row)
        ELSE Oct(<<0,7,7,0,7,7,0,7,7>>) \cup Shl(Oct(<<7,0,0>>), 9 * row)
      ELSE Bits27_ONES

blk_rows_same_band_mask_for_blk(blk_rows, blk) ==
  LET blk_bits == Shl(Oct(<<1,1,1>>), blk) \cap blk_rows
      shifted  == Shr(blk_bits, blk)
  IN  IF Cardinality(blk_bits) = 0 THEN {}
      ELSE IF Cardinality(blk_bits) = 1 THEN
        IF shifted = Oct(<<0,0,1>>) THEN Oct(<<7,7,7,7,7,7,0,0,0>>) \cup Shl(Oct(<<7>>), 3 * blk)
        ELSE IF shifted = Oct(<<0,1,0>>) THEN Oct(<<7,7,7,0,0,0,7,7,7>>) \cup Shl(Oct(<<7,0,0,0>>), 3 * blk)
        ELSE Oct(<<0,0,0,7,7,7,7,7,7>>) \cup Shl(Oct(<<7,0,0,0,0,0,0>>), 3 * blk)
      ELSE Bits27_ONES

clear_when_unit_empty(bits, unit_mask) == IF bits \cap unit_mask = {} THEN {} ELSE bits

\* The first `bits` of blk_rows_to_zeroed_band_locs.
blk_rows_same_band_masks(blk_rows) ==
  blk_rows_same_band_mask_for_row(blk_rows, 0) \cap
  blk_rows_same_band_mask_for_row(blk_rows, 1) \cap
  blk_rows_same_band_mask_for_row(blk_rows, 2) \cap
  blk_rows_same_band_mask_for_blk(blk_rows, 0) \cap
  blk_rows_same_band_mask_for_blk(blk_rows, 1) \cap
  blk_rows_same_band_mask_for_blk(blk_rows, 2)

\* Its second `bits`, made from the first.
clear_when_row_or_col_empty(bits) ==
  clear_when_unit_empty(bits, Oct(<<0,0,0,0,0,0,7,7,7>>)) \cap
  clear_when_unit_empty(bits, Oct(<<0,0,0,7,7,7,0,0,0>>)) \cap
  clear_when_unit_empty(bits, Oct(<<7,7,7,0,0,0,0,0,0>>)) \cap
  clear_when_unit_empty(bits, Oct(<<0,0,7,0,0,7,0,0,7>>)) \cap
  clear_when_unit_empty(bits, Oct(<<0,7,0,0,7,0,0,7,0>>)) \cap
  clear_when_unit_empty(bits, Oct(<<7,0,0,7,0,0,7,0,0>>))

blk_rows_to_zeroed_band_locs(blk_rows) ==
  clear_when_row_or_col_empty(blk_rows_same_band_masks(blk_rows)) \cap Bits27_ONES

blk_rows_to_forced_row_bit(blk_rows, row) ==
  LET row_bits == Shl({0, 1, 2}, 3 * row) \cap blk_rows
  IN  IF Cardinality(row_bits) = 1 THEN row_bits ELSE {}

has_zero_unit(blk_lines, m0, m1, m2) ==
  blk_lines \cap m0 = {} \/ blk_lines \cap m1 = {} \/ blk_lines \cap m2 = {}

\* The `bits` of blk_rows_to_constrained_blk_rows, from its `band_locs`.
or_triples_of_rows(r) ==
  from_bits3s(or_triples_impl(r[1]), or_triples_impl(r[2]), or_triples_impl(r[3]))

\* Its result, from the narrowed `blk_rows`.
blk_rows_to_forced_row_bits(blk_rows) ==
  blk_rows_to_forced_row_bit(blk_rows, 0) \cup
  blk_rows_to_forced_row_bit(blk_rows, 1) \cup
  blk_rows_to_forced_row_bit(blk_rows, 2)

blk_rows_to_constrained_blk_rows(blk_rows) ==
  blk_rows_to_forced_row_bits(
    or_triples_of_rows(to_bits9s(blk_rows_to_zeroed_band_locs(blk_rows))) \cap blk_rows)

blk_rows_to_masks_impl(blk_rows) ==
  [zeroed_band_locs |-> blk_rows_to_zeroed_band_locs(blk_rows),
   constrained_blk_rows |-> blk_rows_to_constrained_blk_rows(blk_rows)]

BLK_ROWS_TO_MASKS == StaticTable([b \in SUBSET Bits9_ONES |-> blk_rows_to_masks_impl(b)])

blk_rows_to_masks(blk_rows) == BLK_ROWS_TO_MASKS[blk_rows]

blk_cols_diff_band_mask_for_blk(blk_cols, blk) ==
  LET blk_bits == Shl({0, 1, 2}, 3 * blk) \cap blk_cols
      shifted  == Shr(blk_bits, 3 * blk)
  IN  IF Cardinality(blk_bits) = 0 THEN {}
      ELSE IF Cardinality(blk_bits) = 1 THEN
        IF shifted = {0} THEN Bits27_ONES \ Shl(Oct(<<0,0,1,0,0,1,0,0,1>>), 3 * blk)
        ELSE IF shifted = {1} THEN Bits27_ONES \ Shl(Oct(<<0,0,2,0,0,2,0,0,2>>), 3 * blk)
        ELSE Bits27_ONES \ Shl(Oct(<<0,0,4,0,0,4,0,0,4>>), 3 * blk)
      ELSE Bits27_ONES

\* The first `bits` of blk_cols_to_zeroed_band_locs.
blk_cols_diff_band_masks(blk_cols) ==
  blk_cols_diff_band_mask_for_blk(blk_cols, 0) \cap
  blk_cols_diff_band_mask_for_blk(blk_cols, 1) \cap
  blk_cols_diff_band_mask_for_blk(blk_cols, 2)

\* Its second `bits`, made from the first.
clear_when_col_empty(bits) ==
  clear_when_unit_empty(bits, Oct(<<0,0,7,0,0,7,0,0,7>>)) \cap
  clear_when_unit_empty(bits, Oct(<<0,7,0,0,7,0,0,7,0>>)) \cap
  clear_when_unit_empty(bits, Oct(<<7,0,0,7,0,0,7,0,0>>))

blk_cols_to_zeroed_band_locs(blk_cols) ==
  clear_when_col_empty(blk_cols_diff_band_masks(blk_cols)) \cap Bits27_ONES

blk_cols_to_blk_bit(blk_cols, blk) ==
  LET blk_bits == Shl({0, 1, 2}, 3 * blk) \cap blk_cols
  IN  IF Cardinality(blk_bits) = 1 THEN {blk} ELSE {}

\* The `blks` of blk_cols_to_constrained_blk_rows.
blk_cols_to_blk_bits(blk_cols) ==
  blk_cols_to_blk_bit(blk_cols, 0) \cup
  blk_cols_to_blk_bit(blk_cols, 1) \cup
  blk_cols_to_blk_bit(blk_cols, 2)

in_every_row(blks) == from_bits3s(blks, blks, blks)

blk_cols_to_constrained_blk_rows(blk_cols) ==
  IF has_zero_unit(blk_cols, Oct(<<0,0,7>>), Oct(<<0,7,0>>), Oct(<<7,0,0>>)) THEN {}
  ELSE in_every_row(blk_cols_to_blk_bits(blk_cols))

blk_cols_to_masks_impl(blk_cols) ==
  [zeroed_band_locs |-> blk_cols_to_zeroed_band_locs(blk_cols),
   constrained_blk_rows |-> blk_cols_to_constrained_blk_rows(blk_cols)]

BLK_COLS_TO_MASKS == StaticTable([b \in SUBSET Bits9_ONES |-> blk_cols_to_masks_impl(b)])

blk_cols_to_masks(blk_cols) == BLK_COLS_TO_MASKS[blk_cols]

\* --------------------------------------------------------------- core/loc

\* A Rust array: a function on 1..n whose elements are evaluated when the
\* array is made.
Array(f) == f \o <<>>

const_row(loc) == loc \div 9

const_col(loc) == loc % 9

const_row_band(loc) == loc \div 27

const_row_band_loc(loc) == loc % 27

const_col_band(loc) == (loc \div 3) % 3

const_blk_row(loc) == (loc \div 9) % 3

const_blk_col(loc) == loc % 3

const_blk(loc) == const_row_band(loc) * 3 + const_col_band(loc)

Loc_at(row, col) == row * 9 + col

\* The result of calc_band_peers from its same_row and diff_row.
band_peers_of(blk_row, same_row, diff_row) ==
  IF blk_row = 0 THEN from_bits9s(same_row, diff_row, diff_row)
  ELSE IF blk_row = 1 THEN from_bits9s(diff_row, same_row, diff_row)
  ELSE from_bits9s(diff_row, diff_row, same_row)

calc_band_peers(loc) ==
  band_peers_of(const_blk_row(loc), Oct(<<7,7,7>>) \ {const_col(loc)},
                Shl(Oct(<<7>>), 3 * const_col_band(loc)))

\* A LocSet (Bits3x27) is the array of its row-bands' Bits27, band b at
\* index b + 1.  The result of calc_peers from its same_band and diff_band:
peers_of(row_band, same_band, diff_band) ==
  Array([i \in 1..3 |-> IF i = row_band + 1 THEN same_band ELSE diff_band])

calc_peers(loc) ==
  peers_of(const_row_band(loc), calc_band_peers(loc),
           Shl(Oct(<<0,0,1,0,0,1,0,0,1>>), const_col(loc)))

Bits3x27_not(x) == <<Bits27_ONES \ x[1], Bits27_ONES \ x[2], Bits27_ONES \ x[3]>>

Bits3x27_and(x, y) == <<x[1] \cap y[1], x[2] \cap y[2], x[3] \cap y[3]>>

Bits3x27_or(x, y) == <<x[1] \cup y[1], x[2] \cup y[2], x[3] \cup y[3]>>

Bits3x27_xor(x, y) ==
  <<(x[1] \ y[1]) \cup (y[1] \ x[1]), (x[2] \ y[2]) \cup (y[2] \ x[2]),
    (x[3] \ y[3]) \cup (y[3] \ x[3])>>

loc_to_zeroed_peers_impl(loc) == Bits3x27_not(calc_peers(loc))

LOC_TO_ZEROED_PEERS == Array([i \in 1..81 |-> loc_to_zeroed_peers_impl(i - 1)])

loc_to_zeroed_peers(loc) == LOC_TO_ZEROED_PEERS[loc + 1]

LocSet_new == <<{}, {}, {}>>

LocSet_all == <<Bits27_ONES, Bits27_ONES, Bits27_ONES>>

LocSet_singleton(loc) ==
  [LocSet_new EXCEPT ![const_row_band(loc) + 1] = {const_row_band_loc(loc)}]

LocSet_contains(set, loc) == const_row_band_loc(loc) \in set[const_row_band(loc) + 1]

\* The members of a LocSet as a set of Locs.
LocSet_items(set) == set[1] \cup Shl(set[2], 27) \cup Shl(set[3], 54)

LocSet_is_empty(set) == set = LocSet_new

LocSet_len(set) == Cardinality(set[1]) + Cardinality(set[2]) + Cardinality(set[3])

Min(S) == CHOOSE x \in S : \A y \in S : x <= y

Max(S) == CHOOSE x \in S : \A y \in S : x >= y

Only(S) == CHOOSE x \in S : TRUE

\* -------------------------------------------------------------- core/asgmt

\* An AsgmtSet (Bits9x3x27) is the array of its numerals' planes, each a
\* Bits3x27.
AsgmtSet_all == Array([n \in Nums |-> LocSet_all])

AsgmtSet_contains(asgmts, num, loc) == LocSet_contains(asgmts[num], loc)

band_locs(asgmts, num, band) == asgmts[num][band + 1]

RECURSIVE mins_from(_, _, _, _, _)
\* The loop of singles_and_doubles: min_k is the set of locations with at
\* least k numerals among the planes seen so far.  The three are values
\* (m1, m2, m3), computed once in each turn of the loop.
mins_from(asgmts, num, min1, min2, min3) ==
  IF num > 9 THEN <<min1, min2, min3>>
  ELSE CHOOSE mins \in
         {mins_from(asgmts, num + 1,
                    Bits3x27_or(m1, asgmts[num]),
                    Bits3x27_or(m2, Bits3x27_and(asgmts[num], m1)),
                    Bits3x27_or(m3, Bits3x27_and(asgmts[num], m2))) :
            m1 \in {min1}, m2 \in {min2}, m3 \in {min3}} : TRUE

always_valid(m) ==
  [ok |-> TRUE, singles |-> Bits3x27_xor(m[1], m[2]), doubles |-> Bits3x27_xor(m[2], m[3])]

at_least_one(m) == [ok |-> TRUE, singles |-> m[1], doubles |-> m[2]]

\* What singles_and_doubles returns after its loop.
exactly(m) ==
  IF m[1] # LocSet_all THEN [ok |-> FALSE]
  ELSE [ok |-> TRUE,
        singles |-> Bits3x27_xor(m[1], m[2]),
        doubles |-> Bits3x27_xor(m[2], m[3])]

singles_and_doubles(asgmts) ==
  exactly(mins_from(asgmts, 1, LocSet_new, LocSet_new, LocSet_new))

\* A Grid is a function from Locs to 0..9, 0 standing for None.
Grid_new == [loc \in Locs |-> 0]

\* The numerals to_grid's loop assigns to a location.
nums_at(asgmts, singles, loc) ==
  {n \in Nums : LocSet_contains(singles, loc) /\ AsgmtSet_contains(asgmts, n, loc)}

\* The loop of AsgmtSet::to_grid: numerals in ascending order, each
\* assigned at the singles of its plane, a later numeral overwriting.
to_grid_from(asgmts, singles) ==
  [loc \in Locs |->
     IF nums_at(asgmts, singles, loc) = {} THEN 0 ELSE Max(nums_at(asgmts, singles, loc))]

to_grid_of(asgmts, sd) ==
  IF sd.ok THEN [ok |-> TRUE, grid |-> to_grid_from(asgmts, sd.singles)] ELSE [ok |-> FALSE]

AsgmtSet_to_grid(asgmts) == to_grid_of(asgmts, singles_and_doubles(asgmts))

\* ------------------------------------------------------------ solve/ledger

Ledger_all == [asgmts |-> AsgmtSet_all, old_asgmts |-> AsgmtSet_all, unset |-> LocSet_all]

\* A ledger that counts as full with locations still unset.
is_nearly_complete(ledger) == LocSet_len(ledger.unset) <= 4

is_complete(ledger) == LocSet_is_empty(ledger.unset)

is_possible(ledger, num, loc) == AsgmtSet_contains(ledger.asgmts, num, loc)

eliminate_peers_in_plane(plane, loc) ==
  [plane EXCEPT ![const_row_band(loc) + 1] =
     @ \cap loc_to_zeroed_peers(loc)[const_row_band(loc) + 1]]

assign_blindly(ledger, num, loc) ==
  [ledger EXCEPT !.asgmts[num] = eliminate_peers_in_plane(@, loc)]

\* What assign_from_new returns: the ledger it leaves, and whether the
\* assignment is still possible in it.
\* An assign_from_new that always tells the assignment was consistent.
always_possible(answer, num, loc) == [ledger |-> answer, ok |-> TRUE]

still_possible(answer, num, loc) ==
  [ledger |-> answer, ok |-> AsgmtSet_contains(answer.asgmts, num, loc)]

\* assign_from_new, given its zero_loc and the location's zeroed peers.
assign_with_masks(ledger, num, loc, zero_loc, zeroed_peers) ==
  still_possible(
    [asgmts |-> Array([n \in Nums |->
                  Bits3x27_and(ledger.asgmts[n], IF n = num THEN zeroed_peers ELSE zero_loc)]),
     old_asgmts |-> ledger.old_asgmts,
     unset |-> Bits3x27_and(ledger.unset, zero_loc)],
    num, loc)

assign_from_new(ledger, num, loc) ==
  assign_with_masks(ledger, num, loc, Bits3x27_not(LocSet_singleton(loc)),
                    loc_to_zeroed_peers(loc))

RECURSIVE Ledger_new_loop(_, _, _, _)
\* The loop of Ledger::new over the locations lo..hi in order, from the
\* result r so far; the loop is left at the first inconsistent clue.
Ledger_new_loop(grid, lo, hi, r) ==
  IF ~r.ok THEN r
  ELSE IF lo < hi
       THEN Ledger_new_loop(grid, (lo + hi) \div 2 + 1, hi,
                            Ledger_new_loop(grid, lo, (lo + hi) \div 2, r))
       ELSE IF grid[lo] = 0 THEN r
       ELSE assign_from_new(r.ledger, grid[lo], lo)

Ledger_new(grid) == Ledger_new_loop(grid, 0, 80, [ok |-> TRUE, ledger |-> Ledger_all])

band_next(band) == (band + 1) % 3

band_prev(band) == (band + 2) % 3

\* The end of eliminate_by_overlaps_in_band: the assignments to old_asgmts,
\* asgmts and unset, from the masks found.
overlaps_in_band_update(ledger, num, band, locs, zeroed_other_band_locs, remaining_band_locs) ==
  [ok |-> TRUE,
   ledger |->
     [asgmts |-> Array([n \in Nums |->
        IF n = num
        THEN Array([i \in 1..3 |-> IF i = band + 1 THEN locs
                                   ELSE ledger.asgmts[n][i] \cap zeroed_other_band_locs])
        ELSE [ledger.asgmts[n] EXCEPT ![band + 1] = @ \cap remaining_band_locs]]),
      old_asgmts |-> [ledger.old_asgmts EXCEPT ![num][band + 1] = locs],
      unset |-> [ledger.unset EXCEPT ![band + 1] = @ \cap remaining_band_locs]]]

\* Its middle, from the two BlkLineMasks.
overlaps_in_band_cols(ledger, num, band, locs, row_masks, col_masks) ==
  overlaps_in_band_update(ledger, num, band, locs, col_masks.zeroed_band_locs,
    Bits27_ONES \ (locs \cap solved_blk_rows_to_band_locs_mask(
                     row_masks.constrained_blk_rows \cap col_masks.constrained_blk_rows)))

\* Its test of the band's narrowed locations.
overlaps_in_band_rows(ledger, num, band, locs, row_masks) ==
  IF locs = Bits27_ZERO THEN [ok |-> FALSE]
  ELSE overlaps_in_band_cols(ledger, num, band, locs, row_masks,
                             blk_cols_to_masks(band_locs_to_blk_cols(locs)))

\* Its beginning, from the block-rows' masks.
overlaps_in_band_masks(ledger, num, band, row_masks) ==
  overlaps_in_band_rows(ledger, num, band,
                        band_locs(ledger.asgmts, num, band) \cap row_masks.zeroed_band_locs,
                        row_masks)

eliminate_by_overlaps_in_band(ledger, num, band) ==
  overlaps_in_band_masks(ledger, num, band,
    blk_rows_to_masks(band_locs_to_blk_rows(band_locs(ledger.asgmts, num, band))))

\* What the body of eliminate_by_overlaps's loops makes of `?`.
overlaps_result(e) ==
  IF e.ok THEN [ok |-> TRUE, ledger |-> e.ledger, keep_going |-> TRUE]
  ELSE [ok |-> FALSE, keep_going |-> FALSE]

\* The body of eliminate_by_overlaps's two for loops for the i-th
\* (numeral, band) pair, i = 3 * (num - 1) + band.
overlaps_body(r, i) ==
  IF band_locs(r.ledger.asgmts, (i \div 3) + 1, i % 3)
       # band_locs(r.ledger.old_asgmts, (i \div 3) + 1, i % 3)
  THEN overlaps_result(eliminate_by_overlaps_in_band(r.ledger, (i \div 3) + 1, i % 3))
  ELSE r

RECURSIVE overlaps_pass(_, _, _)
\* The two for loops over the pairs lo..hi in order; `?` leaves them.
overlaps_pass(r, lo, hi) ==
  IF ~r.ok THEN r
  ELSE IF lo < hi
       THEN overlaps_pass(overlaps_pass(r, lo, (lo + hi) \div 2), (lo + hi) \div 2 + 1, hi)
       ELSE overlaps_body(r, lo)

\* A loop of up to 2^LoopDoublings iterations is unfolded by halves.
LoopDoublings == 10

RECURSIVE eliminate_by_overlaps_loop(_, _)
\* Up to 2^k iterations of eliminate_by_overlaps's while loop.
eliminate_by_overlaps_loop(r, k) ==
  IF ~r.ok \/ ~r.keep_going THEN r
  ELSE IF k = 0 THEN overlaps_pass([r EXCEPT !.keep_going = FALSE], 0, 26)
  ELSE eliminate_by_overlaps_loop(eliminate_by_overlaps_loop(r, k - 1), k - 1)

eliminate_by_overlaps(ledger) ==
  eliminate_by_overlaps_loop([ok |-> TRUE, ledger |-> ledger, keep_going |-> TRUE], LoopDoublings)

\* An eliminate_peers_in_same_band that eliminates nothing.
keeps_peers(ledger, locs) == ledger

\* The inner loop of eliminate_peers_in_same_band for one band of one
\* plane: the band loses the same-band peers of each location of `here`.
eliminate_peers_in_band(locs, band, here) ==
  {x \in locs : \A y \in here : x \in loc_to_zeroed_peers(27 * band + y)[band + 1]}

eliminate_peers_in_same_band(ledger, locs) ==
  [ledger EXCEPT !.asgmts =
     Array([n \in Nums |-> Array([i \in 1..3 |->
        eliminate_peers_in_band(ledger.asgmts[n][i], i - 1, ledger.asgmts[n][i] \cap locs[i])])])]

\* An apply_implications that returns after its first turn.
returns_at_once(ledger, ones, twos) ==
  [ok |-> TRUE, returned |-> TRUE, ledger |-> eliminate_peers_in_same_band(ledger, ones),
   twos |-> twos]

\* The end of an iteration of apply_implications's loop, from its `ones`;
\* `returned` tells whether the iteration left the function.
implications_of_ones(ledger, ones, twos) ==
  IF LocSet_is_empty(ones)
  THEN [ok |-> TRUE, returned |-> TRUE, ledger |-> ledger, twos |-> twos]
  ELSE [ok |-> TRUE, returned |-> FALSE, ledger |-> eliminate_peers_in_same_band(ledger, ones)]

implications_of_singles(ledger, sd) ==
  IF ~sd.ok THEN [ok |-> FALSE, returned |-> TRUE]
  ELSE implications_of_ones(ledger, Bits3x27_and(sd.singles, ledger.unset), sd.doubles)

implications_of_overlaps(e) ==
  IF ~e.ok THEN [ok |-> FALSE, returned |-> TRUE]
  ELSE implications_of_singles(e.ledger, singles_and_doubles(e.ledger.asgmts))

\* One iteration of apply_implications's loop.
apply_implications_body(ledger) == implications_of_overlaps(eliminate_by_overlaps(ledger))

RECURSIVE apply_implications_loop(_, _)
apply_implications_loop(r, k) ==
  IF r.returned THEN r
  ELSE IF k = 0 THEN apply_implications_body(r.ledger)
  ELSE apply_implications_loop(apply_implications_loop(r, k - 1), k - 1)

apply_implications(ledger) ==
  apply_implications_loop([ok |-> TRUE, returned |-> FALSE, ledger |-> ledger], LoopDoublings)

assign_and_apply_implications(ledger, num, loc) ==
  apply_implications(assign_blindly(ledger, num, loc))

Ledger_to_grid(ledger) == AsgmtSet_to_grid(ledger.asgmts)

\* ------------------------------------------------------- core/bits, set

RECURSIVE Bits27_bit_at_from(_, _, _, _)
\* The binary search of bit_at over the positions lo..hi-1, for the i-th
\* bit: the position of the bit it returns.
Bits27_bit_at_from(bits, i, lo, hi) ==
  IF i >= Cardinality(bits \cap (lo..(lo + (hi - lo) \div 2 - 1)))
  THEN IF (hi - lo) \div 2 = 1 THEN lo + 1
       ELSE Bits27_bit_at_from(bits, i - Cardinality(bits \cap (lo..(lo + (hi - lo) \div 2 - 1))),
                               lo + (hi - lo) \div 2, hi)
  ELSE IF (hi - lo) \div 2 = 1 THEN lo
       ELSE Bits27_bit_at_from(bits, i, lo, hi - (hi - lo) \div 2)

\* Bits3x27::bit_at followed by smallest_value: the band with the i-th
\* bit, then the search within it.  Requires 0 <= i < len.
Bits3x27_value_at(x, i) ==
  IF i < Cardinality(x[1]) THEN Bits27_bit_at_from(x[1], i, 0, 27)
  ELSE IF i - Cardinality(x[1]) < Cardinality(x[2])
       THEN 27 + Bits27_bit_at_from(x[2], i - Cardinality(x[1]), 0, 27)
       ELSE 54 + Bits27_bit_at_from(x[3], i - Cardinality(x[1]) - Cardinality(x[2]), 0, 27)

LocSet_item_at(set, n) == Bits3x27_value_at(set, n)

LocSet_smallest_item(set) == Min(LocSet_items(set))

\* The locations smallest_in_row_band finds, over the three bands.
smallest_in_row_bands(set) == {27 * b + Min(set[b + 1]) : b \in {c \in Bands : set[c + 1] # {}}}

\* ------------------------------------------------------------------ solve

Helpers == {"DefaultHelper", "JczHelper", "RandomPivotHelper", "GenHelper"}

\* The helper of bin/min-solution.
MinimizingSearchHelper == "MinimizingSearchHelper"

possible_count(ledger, loc) == Cardinality({num \in Nums : is_possible(ledger, num, loc)})

\* The minimum of DefaultHelper's (possible_count, loc) pairs.
min_possible(ledger, cands) ==
  {loc \in cands : \A other \in cands :
     \/ possible_count(ledger, loc) < possible_count(ledger, other)
     \/ /\ possible_count(ledger, loc) = possible_count(ledger, other)
        /\ loc <= other}

any_item(set) == {LocSet_item_at(set, n) : n \in 0..(LocSet_len(set) - 1)}

\* The locations a helper's choose_pivot_loc may return.
choose_pivot_loc(helper_, ledger, twos) ==
  IF helper_ = "DefaultHelper" THEN
    IF ~LocSet_is_empty(twos) THEN {LocSet_smallest_item(twos)}
    ELSE min_possible(ledger, smallest_in_row_bands(ledger.unset))
  ELSE IF helper_ = "RandomPivotHelper" THEN
    IF ~LocSet_is_empty(twos) THEN any_item(twos) ELSE any_item(ledger.unset)
  ELSE IF helper_ = MinimizingSearchHelper THEN {LocSet_smallest_item(ledger.unset)}
  ELSE
    IF ~LocSet_is_empty(twos) THEN {LocSet_smallest_item(twos)}
    ELSE {LocSet_smallest_item(ledger.unset)}

IndexPermutations(n) == {q \in [1..n -> 1..n] : \A i, j \in 1..n : q[i] = q[j] => i = j}

\* The orders a helper's order_pivot_nums may leave the numerals in.
order_pivot_nums(helper_, nums) ==
  IF helper_ = "GenHelper"
  THEN {Array([i \in 1..Len(nums) |-> nums[p[i]]]) : p \in IndexPermutations(Len(nums))}
  ELSE {nums}

RECURSIVE fill_nums_from(_, _, _)
fill_nums_from(ledger, pivot_loc, num) ==
  IF num > 9 THEN <<>>
  ELSE (IF is_possible(ledger, num, pivot_loc) THEN <<num>> ELSE <<>>)
       \o fill_nums_from(ledger, pivot_loc, num + 1)

\* A fill_nums that lists the greatest numeral first.
fill_nums_descending(ledger, pivot_loc) ==
  [i \in 1..Len(fill_nums_from(ledger, pivot_loc, 1)) |->
     fill_nums_from(ledger, pivot_loc, 1)[Len(fill_nums_from(ledger, pivot_loc, 1)) + 1 - i]]

fill_nums(ledger, pivot_loc) == fill_nums_from(ledger, pivot_loc, 1)

\* The stack items a pivot may make of a ledger, one for each decision of
\* the helper.
StackItems(helper_, ledger, twos) ==
  UNION {{[ledger |-> ledger, pivot_loc |-> loc, nums |-> nums, count |-> Len(nums), next |-> 0] :
            nums \in order_pivot_nums(helper_, fill_nums(ledger, loc))} :
           loc \in choose_pivot_loc(helper_, ledger, twos)}

\* Some(grid) is <<grid>>, None is <<>>.
solution(ledger) == <<Ledger_to_grid(ledger).grid>>

\* Searcher::pivot: the searchers it may leave, or none when the ledger is
\* complete and it returns false.
pivot(helper_, s, ledger, twos) ==
  IF is_complete(ledger) THEN {}
  ELSE {[s EXCEPT !.stack = Append(s.stack, item),
                  !.max_depth = IF Len(s.stack) + 1 > @ THEN Len(s.stack) + 1 ELSE @] :
          item \in StackItems(helper_, ledger, twos)}

\* The result of SearcherFactory::new for a ledger whose implications
\* were applied.
factory_of_implied(implied) ==
  IF implied.ok THEN [ledger |-> <<implied.ledger>>, twos |-> implied.twos]
  ELSE [ledger |-> <<>>, twos |-> LocSet_new]

factory_of_new(result) ==
  IF result.ok THEN factory_of_implied(apply_implications(result.ledger))
  ELSE [ledger |-> <<>>, twos |-> LocSet_new]

SearcherFactory_new(grid) == factory_of_new(Ledger_new(grid))

NoSearcher == [found |-> <<>>, total_pivots |-> 0, max_depth |-> 0, stack |-> <<>>]

Searcher_new(helper_, ledger, twos) ==
  IF ledger = <<>> THEN {NoSearcher}
  ELSE IF is_complete(ledger[1]) THEN {[NoSearcher EXCEPT !.found = solution(ledger[1])]}
  ELSE pivot(helper_, NoSearcher, ledger[1], twos)

new_searcher(helper_, factory) == Searcher_new(helper_, factory.ledger, factory.twos)

Pop(stack) == SubSeq(stack, 1, Len(stack) - 1)

Top(stack) == stack[Len(stack)]

\* next_num: the numeral it returns, and whether it is the item's last.
next_num(item) == item.nums[item.next + 1]

\* A `run` that takes every numeral for an item's last.
next_is_always_last(item) == TRUE

next_is_last(item) == item.next + 1 >= item.count

\* The branch of Searcher::run's loop for the last numeral of the top
\* item, from the result of its assignment: the searchers it may leave,
\* each with whether the loop breaks.
run_last_result(helper_, s, result) ==
  IF ~result.ok THEN {[s |-> [s EXCEPT !.stack = Pop(s.stack)], break |-> FALSE]}
  ELSE IF is_complete(result.ledger)
  THEN {[s |-> [s EXCEPT !.found = solution(result.ledger), !.stack = Pop(s.stack)],
         break |-> TRUE]}
  ELSE {[s |-> [s EXCEPT !.stack[Len(s.stack)] = reused], break |-> FALSE] :
          reused \in StackItems(helper_, result.ledger, result.twos)}

run_last(helper_, s) ==
  run_last_result(helper_, s,
    assign_and_apply_implications(Top(s.stack).ledger, next_num(Top(s.stack)),
                                  Top(s.stack).pivot_loc))

\* The branch for a numeral that is not the last, whose assignment is made
\* in a copy of the item's ledger; s is the searcher after next_num.
run_copy_result(helper_, s, result) ==
  IF ~result.ok THEN {[s |-> s, break |-> FALSE]}
  ELSE IF is_complete(result.ledger)
  THEN {[s |-> [s EXCEPT !.found = solution(result.ledger)], break |-> TRUE]}
  ELSE {[s |-> pushed, break |-> FALSE] :
          pushed \in pivot(helper_, s, result.ledger, result.twos)}

run_copy(helper_, s) ==
  run_copy_result(helper_, [s EXCEPT !.stack[Len(s.stack)].next = @ + 1],
    assign_and_apply_implications(Top(s.stack).ledger, next_num(Top(s.stack)),
                                  Top(s.stack).pivot_loc))

\* A `solve` that takes max_solutions as given, negative or not.
max_as_given(max_solutions_) == max_solutions_

max_of(max_solutions_) == IF 0 > max_solutions_ THEN 0 ELSE max_solutions_

\* -------------------------------------------------- core/units, core/grid

\* UnitId::all: the rows are 0..8, the columns 9..17, the blocks 18..26.
UnitIds == 0..26

Row_locs(row) == {9 * row + col : col \in 0..8}

Col_locs(col) == {9 * row + col : row \in 0..8}

Blk_locs(blk) ==
  {9 * (3 * (blk \div 3) + r) + 3 * (blk % 3) + c : r \in 0..2, c \in 0..2}

UnitId_locs(id) ==
  IF id < 9 THEN Row_locs(id)
  ELSE IF id < 18 THEN Col_locs(id - 9)
  ELSE Blk_locs(id - 18)

Grid_len(grid) == Cardinality({loc \in Locs : grid[loc] # 0})

\* The locations Grid::state finds broken in one unit: where a numeral is
\* seen again, and where it was first seen.
broken_in_unit(grid, locs) ==
  {loc \in locs : grid[loc] # 0 /\ \E other \in locs : other # loc /\ grid[other] = grid[loc]}

state_of(grid, broken) ==
  IF broken = {}
  THEN IF Grid_len(grid) = 81 THEN [state |-> "Solved", broken |-> {}]
       ELSE [state |-> "Incomplete", broken |-> {}]
  ELSE [state |-> "Broken", broken |-> broken]

Grid_state(grid) ==
  state_of(grid, UNION {broken_in_unit(grid, UnitId_locs(id)) : id \in UnitIds})

\* ------------------------------------------------- the puzzles `solve` is run on

Grid_of(seq) == [loc \in Locs |-> seq[loc + 1]]

\* A blanking that leaves all of `locs` but the first as they are.
blank_first(grid, locs) ==
  [loc \in Locs |-> IF loc \in locs /\ \A other \in locs : loc <= other THEN 0 ELSE grid[loc]]

\* `grid` with `locs` unset.
Blank(grid, locs) == [loc \in Locs |-> IF loc \in locs THEN 0 ELSE grid[loc]]

SolvedBase == Grid_of(<<
  4,5,1,9,3,2,7,6,8,
  6,8,9,1,5,7,2,3,4,
  7,3,2,6,8,4,9,1,5,
  3,4,8,5,1,9,6,2,7,
  1,2,5,3,7,6,4,8,9,
  9,7,6,2,4,8,1,5,3,
  5,9,3,7,6,1,8,4,2,
  2,6,4,8,9,3,5,7,1,
  8,1,7,4,2,5,3,9,6 >>)

\* solve.rs's test puzzles: a broken one, one with no solution, one that
\* needs pivots.
Broken19 == Grid_of(<<
  0,0,0,8,0,9,0,0,6,
  0,2,3,0,0,0,0,0,0,
  0,0,0,6,0,8,0,0,0,
  7,0,0,0,0,1,0,0,2,
  0,0,0,4,5,0,0,0,9,
  0,0,0,0,0,0,6,0,0,
  0,0,0,0,7,0,0,0,0,
  0,0,1,0,4,6,0,0,0,
  0,0,3,0,0,0,0,0,0 >>)

NoSolution25 == Grid_of(<<
  1,0,0,0,0,6,0,0,0,
  0,5,9,0,0,0,0,0,8,
  2,0,0,0,0,8,0,0,0,
  0,4,5,0,0,0,3,0,0,
  0,0,3,0,0,0,7,0,0,
  0,0,6,0,0,3,0,5,4,
  0,0,0,3,2,5,0,0,6,
  0,0,0,0,0,0,0,0,1,
  7,3,8,9,0,0,0,0,0 >>)

Pivots24 == Grid_of(<<
  0,6,0,5,0,4,0,3,0,
  1,0,0,0,9,0,0,0,8,
  0,0,0,0,0,0,0,0,0,
  9,0,0,0,5,0,0,0,6,
  0,4,0,6,0,2,0,7,0,
  7,0,0,0,4,0,0,0,5,
  0,0,0,0,0,0,0,0,0,
  4,0,0,0,8,0,0,0,1,
  0,5,0,2,0,3,0,4,0 >>)

\* Rectangles of SolvedBase whose corners can be exchanged: blanking k of
\* them leaves a puzzle with several solutions.
Rectangles == << {2, 3, 11, 12}, {5, 6, 14, 15}, {11, 15, 20, 24}, {22, 23, 49, 50} >>

BlankRectangles(k) == Blank(SolvedBase, UNION {Rectangles[i] : i \in 1..k})

\* SolvedBase with the numeral of its first cell repeated in its row.
BrokenBase == [SolvedBase EXCEPT ![1] = SolvedBase[0]]

MaxRectangles == 2

MaxMaxSolutions == 3

\* ---------------------------------------------------------------------- sym

Syms ==
  {"Rotation180", "Rotation90", "MirrorX", "MirrorY", "DoubleMirror", "DiagonalMain",
   "DiagonalAnti", "DoubleDiagonal", "FullyReflective", "BlockwiseMain", "BlockwiseAnti",
   "None"}

Loc_opp(loc) == 80 - loc

Loc_t(loc) == (loc % 9) * 9 + loc \div 9

Line_opp(line) == 8 - line

Blk_loc_at(row_band, col_band, blk_row, blk_col) ==
  Loc_at(row_band * 3 + blk_row, col_band * 3 + blk_col)

\* The closures the symmetries' orbits are made with: the other locations
\* of a location's orbit.
sym_gen(sym_, loc) ==
  CASE sym_ = "Rotation180" -> {Loc_opp(loc)}
    [] sym_ = "Rotation90" ->
         {Loc_at(const_col(loc), Line_opp(const_row(loc))), Loc_opp(loc),
          Loc_at(Line_opp(const_col(loc)), const_row(loc))}
    [] sym_ = "MirrorX" -> {Loc_at(Line_opp(const_row(loc)), const_col(loc))}
    [] sym_ = "MirrorY" -> {Loc_at(const_row(loc), Line_opp(const_col(loc)))}
    [] sym_ = "DoubleMirror" ->
         {Loc_at(Line_opp(const_row(loc)), const_col(loc)), Loc_opp(loc),
          Loc_at(const_row(loc), Line_opp(const_col(loc)))}
    [] sym_ = "DiagonalMain" -> {Loc_t(loc)}
    [] sym_ = "DiagonalAnti" -> {Loc_opp(Loc_t(loc))}
    [] sym_ = "DoubleDiagonal" -> {Loc_t(loc), Loc_opp(loc), Loc_opp(Loc_t(loc))}
    [] sym_ = "FullyReflective" ->
         {Loc_t(loc), Loc_at(const_col(loc), Line_opp(const_row(loc))),
          Loc_at(const_row(loc), Line_opp(const_col(loc))), Loc_opp(loc),
          Loc_t(Loc_opp(loc)), Loc_at(Line_opp(const_col(loc)), const_row(loc)),
          Loc_at(Line_opp(const_row(loc)), const_col(loc))}
    [] sym_ = "BlockwiseMain" ->
         {Blk_loc_at(band_prev(const_row_band(loc)), band_prev(const_col_band(loc)),
                     const_blk_row(loc), const_blk_col(loc)),
          Blk_loc_at(band_next(const_row_band(loc)), band_next(const_col_band(loc)),
                     const_blk_row(loc), const_blk_col(loc))}
    [] sym_ = "BlockwiseAnti" ->
         {Blk_loc_at(band_prev(const_row_band(loc)), band_next(const_col_band(loc)),
                     const_blk_row(loc), const_blk_col(loc)),
          Blk_loc_at(band_next(const_row_band(loc)), band_prev(const_col_band(loc)),
                     const_blk_row(loc), const_blk_col(loc))}
    [] OTHER -> {}

\* new_orbits' loop body: the orbit of the smallest remaining location is
\* pushed and leaves `remaining`.  An orbit is the set of its locations.
orbits_with(r, in_orbit) ==
  [remaining |-> r.remaining \ in_orbit, orbits |-> Append(r.orbits, in_orbit)]

orbit_of(sym_, loc) == {loc} \cup sym_gen(sym_, loc)

RECURSIVE new_orbits_loop(_, _, _)
\* Up to 2^k iterations of new_orbits' loop.
new_orbits_loop(sym_, r, k) ==
  IF r.remaining = {} THEN r
  ELSE IF k = 0 THEN orbits_with(r, orbit_of(sym_, Min(r.remaining)))
  ELSE new_orbits_loop(sym_, new_orbits_loop(sym_, r, k - 1), k - 1)

new_orbits(sym_) == new_orbits_loop(sym_, [remaining |-> Locs, orbits |-> <<>>], 7).orbits

Sym_orbits(sym_) == new_orbits(sym_)

Reverse(seq) == [i \in 1..Len(seq) |-> seq[Len(seq) + 1 - i]]

Rotate(seq, by) == [i \in 1..Len(seq) |-> seq[((i - 1 + by) % Len(seq)) + 1]]

\* The order the k-th state of the random number generator shuffles a
\* slice into.
Shuffled(seq, k) ==
  IF k % 2 = 0 THEN Array(Rotate(seq, 7 * (k \div 2)))
  ELSE Array(Reverse(Rotate(seq, 7 * (k \div 2))))

MaxShuffle == 1

shuffled_orbits(sym_, random) == Shuffled(Sym_orbits(sym_), random)

\* ---------------------------------------------------------------------- gen

MAX_SOLUTIONS == 3

MAX_HOLES == 7

Grid_intersect(grid, other) ==
  [loc \in Locs |-> IF grid[loc] # other[loc] THEN 0 ELSE grid[loc]]

RECURSIVE intersect_from(_, _, _)
intersect_from(intersection, solutions, i) ==
  IF i > Len(solutions) THEN intersection
  ELSE intersect_from(Grid_intersect(intersection, solutions[i]), solutions, i + 1)

num_holes(sum) ==
  IF Len(sum.solutions) < 2 THEN 0
  ELSE 81 - Grid_len(intersect_from(sum.solutions[1], sum.solutions, 2))

RECURSIVE assign_orbit(_, _, _)
\* gen_simple_puzzle's inner loop, for the ledger.
assign_orbit(ledger, solved, orbit) ==
  IF orbit = {} THEN ledger
  ELSE assign_orbit(assign_blindly(ledger, solved[Min(orbit)], Min(orbit)), solved,
                    orbit \ {Min(orbit)})

\* gen_simple_puzzle's inner loop, for the answer.
copy_orbit(grid, solved, orbit) ==
  [loc \in Locs |-> IF loc \in orbit THEN solved[loc] ELSE grid[loc]]

simple_applied(implied, grid) == [ok |-> implied.ok, ledger |-> implied.ledger, answer |-> grid]

\* A gen_simple_puzzle that copies an orbit only when all of it is unset.
all_unset(ledger, orbit) == \A loc \in orbit : LocSet_contains(ledger.unset, loc)

any_unset(ledger, orbit) == \E loc \in orbit : LocSet_contains(ledger.unset, loc)

\* One iteration of gen_simple_puzzle's loop over the orbits; ok is false
\* when apply_implications().unwrap() panics.
simple_orbit(ledger, grid, solved, orbit) ==
  IF any_unset(ledger, orbit)
  THEN simple_applied(apply_implications(assign_orbit(ledger, solved, orbit)),
                      copy_orbit(grid, solved, orbit))
  ELSE [ok |-> TRUE, ledger |-> ledger, answer |-> grid]

\* gen_puzzle's max_solutions and max_holes.
limits(improper_) ==
  IF improper_ THEN [solutions |-> MAX_SOLUTIONS, holes |-> MAX_HOLES]
  ELSE [solutions |-> 1, holes |-> 0]

\* An improve_puzzle that accepts every change.
accepts_all(next_summary, limit) == TRUE

accepts(next_summary, limit) ==
  /\ Len(next_summary.solutions) \in 0..limit.solutions
  /\ num_holes(next_summary) <= limit.holes

\* One iteration of improve_puzzle's loop, from the summary of the clues
\* without the orbit.
\* An improve_puzzle that accepts no change.
keeps_all(sum, next_summary, limit) == sum

improve_orbit(sum, next_summary, limit) ==
  IF accepts(next_summary, limit) THEN next_summary ELSE sum

\* The other solved grid gen is run on: SolvedBase transposed, with its
\* numerals exchanged.
SolvedOther == [loc \in Locs |-> 10 - SolvedBase[Loc_t(loc)]]

\* The puzzles with few unset locations, where the helpers that decide at
\* random have few decisions to make.
FewUnset == {BlankRectangles(k) : k \in 0..MaxRectangles}

Puzzles ==
  FewUnset \cup {Broken19, NoSolution25, Pivots24, BrokenBase, Blank(BrokenBase, Rectangles[2])}

Inputs == (Puzzles \X {"DefaultHelper", "JczHelper"}) \cup (FewUnset \X Helpers)

\* ------------------------------------------------------------------ permute

row_in_band(blk_line, band) == 3 * band + blk_line

col_in_band(blk_line, band) == 3 * band + blk_line

with_row_band(loc, row_band) ==
  Loc_at(row_in_band(const_blk_row(loc), row_band), const_col(loc))

with_col_band(loc, col_band) ==
  Loc_at(const_row(loc), col_in_band(const_blk_col(loc), col_band))

\* A with_blk_row that forgets the location's row-band.
with_blk_row_of_first_band(loc, blk_row) == Loc_at(row_in_band(blk_row, 0), const_col(loc))

with_blk_row(loc, blk_row) ==
  Loc_at(row_in_band(blk_row, const_row_band(loc)), const_col(loc))

with_blk_col(loc, blk_col) ==
  Loc_at(const_row(loc), col_in_band(blk_col, const_col_band(loc)))

\* A FullPermutation is the array of the indices of its values: the value
\* with index i goes to the value with index perm[i + 1].
FullPermutation_apply(perm, value) == perm[value + 1]

FullPermutation_composed_with(perm, other) ==
  Array([i \in 1..Len(perm) |-> FullPermutation_apply(other, perm[i])])

FullPermutation_identity(n) == Array([i \in 1..n |-> i - 1])

\* An inverse that returns the permutation itself.
not_inverted(perm) == perm

RECURSIVE inverse_from(_, _, _)
\* FullPermutation::inverse's loop, from `index` on.
inverse_from(perm, answer, index) ==
  IF index = Len(perm) THEN answer
  ELSE inverse_from(perm, [answer EXCEPT ![perm[index + 1] + 1] = index], index + 1)

FullPermutation_inverse(perm) ==
  inverse_from(perm, FullPermutation_identity(Len(perm)), 0)

\* The cycle! macro, for the types whose ids are their indices: each of
\* `values` goes to the following one, the last to the first.
cycle(n, values) ==
  Array([i \in 1..n |->
    IF \E k \in 1..Len(values) : values[k] = i - 1
    THEN values[((CHOOSE k \in 1..Len(values) : values[k] = i - 1) % Len(values)) + 1]
    ELSE i - 1])

Num_index(num) == num - 1

Num_from_index(index) == index + 1

LocPermutation_apply(locs, loc) ==
  LET transposed == IF locs.transpose THEN Loc_t(loc) ELSE loc
      in_row_band ==
        with_row_band(transposed,
                      FullPermutation_apply(locs.row_bands, const_row_band(transposed)))
      in_col_band ==
        with_col_band(in_row_band,
                      FullPermutation_apply(locs.col_bands, const_col_band(in_row_band)))
      in_blk_row ==
        with_blk_row(in_col_band,
                     FullPermutation_apply(locs.rows_in_bands[const_row_band(in_col_band) + 1],
                                           const_blk_row(in_col_band)))
  IN with_blk_col(in_blk_row,
                  FullPermutation_apply(locs.cols_in_bands[const_col_band(in_blk_row) + 1],
                                        const_blk_col(in_blk_row)))

\* A swap_rows_and_cols that swaps nothing.
without_swap(locs) == locs

swap_rows_and_cols(locs) ==
  [locs EXCEPT !.row_bands = locs.col_bands, !.col_bands = locs.row_bands,
               !.rows_in_bands = locs.cols_in_bands, !.cols_in_bands = locs.rows_in_bands]

RECURSIVE compose_lines(_, _, _, _, _)
\* LocPermutation::composed_with's loop over the bands, from `band` on.
compose_lines(answer, rows_in_bands, cols_in_bands, other, band) ==
  IF band = 3 THEN answer
  ELSE compose_lines(
         [answer EXCEPT
            !.rows_in_bands[FullPermutation_apply(other.row_bands, band) + 1] =
              FullPermutation_composed_with(
                rows_in_bands[band + 1],
                other.rows_in_bands[FullPermutation_apply(other.row_bands, band) + 1]),
            !.cols_in_bands[FullPermutation_apply(other.col_bands, band) + 1] =
              FullPermutation_composed_with(
                cols_in_bands[band + 1],
                other.cols_in_bands[FullPermutation_apply(other.col_bands, band) + 1])],
         rows_in_bands, cols_in_bands, other, band + 1)

\* LocPermutation::composed_with once the transposition is settled.
compose_bands(answer, other) ==
  compose_lines(
    [answer EXCEPT
       !.row_bands = FullPermutation_composed_with(answer.row_bands, other.row_bands),
       !.col_bands = FullPermutation_composed_with(answer.col_bands, other.col_bands)],
    answer.rows_in_bands, answer.cols_in_bands, other, 0)

LocPermutation_composed_with(locs, other) ==
  compose_bands(
    IF other.transpose
    THEN swap_rows_and_cols([locs EXCEPT !.transpose = (locs.transpose # other.transpose)])
    ELSE [locs EXCEPT !.transpose = (locs.transpose # other.transpose)],
    other)

LocPermutation_identity ==
  [transpose |-> FALSE,
   row_bands |-> FullPermutation_identity(3),
   col_bands |-> FullPermutation_identity(3),
   rows_in_bands |->
     <<FullPermutation_identity(3), FullPermutation_identity(3), FullPermutation_identity(3)>>,
   cols_in_bands |->
     <<FullPermutation_identity(3), FullPermutation_identity(3), FullPermutation_identity(3)>>]

RECURSIVE invert_lines(_, _, _)
\* LocPermutation::inverse's loop over the bands, from `band` on.
invert_lines(answer, src, band) ==
  IF band = 3 THEN answer
  ELSE invert_lines(
         [answer EXCEPT
            !.rows_in_bands[FullPermutation_apply(answer.row_bands, band) + 1] =
              FullPermutation_inverse(src.rows_in_bands[band + 1]),
            !.cols_in_bands[FullPermutation_apply(answer.col_bands, band) + 1] =
              FullPermutation_inverse(src.cols_in_bands[band + 1])],
         src, band + 1)

\* LocPermutation::inverse from `src`, the permutation with its rows and
\* columns swapped when it transposes.
invert_bands(locs, src) ==
  invert_lines([locs EXCEPT !.row_bands = FullPermutation_inverse(src.row_bands),
                            !.col_bands = FullPermutation_inverse(src.col_bands)],
               src, 0)

LocPermutation_inverse(locs) ==
  invert_bands(locs, IF locs.transpose THEN swap_rows_and_cols(locs) ELSE locs)

GridPermutation_apply(perm, grid) ==
  LET to == Array([i \in 1..81 |-> LocPermutation_apply(perm.locs, i - 1)])
      from(loc) == {i \in 1..81 : grid[i - 1] # 0 /\ to[i] = loc}
  IN Grid_of(Array([i \in 1..81 |->
       IF from(i - 1) = {} THEN 0
       ELSE Num_from_index(
              FullPermutation_apply(perm.nums, Num_index(grid[Max(from(i - 1)) - 1])))]))

GridPermutation_composed_with(perm, other) ==
  [nums |-> FullPermutation_composed_with(perm.nums, other.nums),
   locs |-> LocPermutation_composed_with(perm.locs, other.locs)]

GridPermutation_identity ==
  [nums |-> FullPermutation_identity(9), locs |-> LocPermutation_identity]

GridPermutation_inverse(perm) ==
  [nums |-> FullPermutation_inverse(perm.nums), locs |-> LocPermutation_inverse(perm.locs)]

\* The derived ordering of SolvedGrid: that of its 81 numerals in order.
Grid_cmp(g1, g2) ==
  LET differ == {loc \in Locs : g1[loc] # g2[loc]}
  IN IF differ = {} THEN "Equal"
     ELSE IF g1[Min(differ)] < g2[Min(differ)] THEN "Less" ELSE "Greater"

BAND_PERMS == <<cycle(3, <<>>), cycle(3, <<0, 1>>), cycle(3, <<0, 2>>)>>

LINE_PERMS ==
  <<cycle(3, <<>>), cycle(3, <<0, 1>>), cycle(3, <<1, 2>>), cycle(3, <<2, 0>>),
    cycle(3, <<0, 1, 2>>), cycle(3, <<2, 1, 0>>)>>

SUFFIX_LOCS == <<Oct(<<7, 7, 7, 7, 7, 4, 0, 0, 0>>), Bits27_ZERO, Bits27_ZERO>>

tweak_lines(bl1, bl2) ==
  LET lines == IF bl1 = 0 THEN cycle(3, <<>>) ELSE cycle(3, <<bl1, 0>>)
  IN IF FullPermutation_apply(lines, bl2) = 2
     THEN FullPermutation_composed_with(lines, cycle(3, <<2, 1>>))
     ELSE lines

\* add_band_minimizing's closure b1_r1_loc: the location among L14..L19
\* that holds the numeral of `loc`, L11 when none does.
b1_r1_loc(grid, inv_locs, loc) ==
  LET same == {r1_loc \in 3..8 : grid[LocPermutation_apply(inv_locs, r1_loc)]
                                   = grid[LocPermutation_apply(inv_locs, loc)]}
  IN IF same = {} THEN 0 ELSE Max(same)

\* add_band_minimizing's tweak that gets r1_loc21 and r1_loc22 into L14
\* and L15.
tweak_b2(locs, r1_loc21, r1_loc22) ==
  [(IF const_blk(r1_loc21) = 2
    THEN LocPermutation_composed_with(
           locs, [LocPermutation_identity EXCEPT !.col_bands = cycle(3, <<1, 2>>)])
    ELSE locs)
   EXCEPT !.cols_in_bands[2] = tweak_lines(const_blk_col(r1_loc21), const_blk_col(r1_loc22))]

\* add_band_minimizing's tweak that lines up the columns of B3.
tweak_b3(locs, r1_loc21, r1_loc23, r1_loc31, r1_loc32) ==
  [locs EXCEPT !.cols_in_bands[3] =
     IF const_blk(r1_loc23) = const_blk(r1_loc21)
     THEN tweak_lines(const_blk_col(r1_loc31), const_blk_col(r1_loc32))
     ELSE tweak_lines(const_blk_col(r1_loc23),
                      const_blk_col(IF const_blk(r1_loc31) = const_blk(r1_loc21)
                                    THEN r1_loc32 ELSE r1_loc31))]

\* add_band_minimizing's num permutation: the one that makes row 1 of the
\* permuted grid 1 through 9.
nums_of(grid, inv_locs) ==
  FullPermutation_inverse(
    Array([i \in 1..9 |-> Num_index(grid[LocPermutation_apply(inv_locs, Loc_at(0, i - 1))])]))

\* One iteration of add_band_minimizing's loop over the suffix; `out` is
\* set when the function returns from inside the loop.
suffix_step(r, i, num) ==
  IF ~r.best /\ num > r.suffix[i] THEN [r EXCEPT !.out = TRUE]
  ELSE IF ~r.best /\ num = r.suffix[i] THEN r
  ELSE [best |-> TRUE, out |-> FALSE, suffix |-> [r.suffix EXCEPT ![i] = num],
        list |-> IF r.best THEN r.list ELSE <<>>]

RECURSIVE suffix_loop(_, _, _)
suffix_loop(r, i, permuted) ==
  IF i > Len(permuted) \/ r.out THEN r
  ELSE suffix_loop(suffix_step(r, i, permuted[i]), i + 1, permuted)

\* The end of add_band_minimizing, from the tweaked permutation on.
add_tweaked(grid, locs, inv_locs, nums, suffix, list) ==
  LET r == suffix_loop(
             [best |-> FALSE, out |-> FALSE, suffix |-> suffix, list |-> list], 1,
             Array([i \in 1..LocSet_len(SUFFIX_LOCS) |->
               Num_from_index(FullPermutation_apply(
                 nums,
                 Num_index(grid[LocPermutation_apply(
                   inv_locs, LocSet_item_at(SUFFIX_LOCS, i - 1))])))]))
  IN IF r.out THEN [suffix |-> r.suffix, list |-> r.list]
     ELSE [suffix |-> r.suffix, list |-> Append(r.list, [nums |-> nums, locs |-> locs])]

\* add_band_minimizing once the row 1 locations of the numerals of L21,
\* L22, L23, L31 and L32 are known.
add_located(grid, locs, suffix, list, r1_loc21, r1_loc22, r1_loc23, r1_loc31, r1_loc32) ==
  IF const_blk(r1_loc21) # const_blk(r1_loc22) THEN [suffix |-> suffix, list |-> list]
  ELSE IF suffix[1] = 6 /\ const_blk(r1_loc23) # const_blk(r1_loc21)
  THEN [suffix |-> suffix, list |-> list]
  ELSE LET tweaked == tweak_b3(tweak_b2(locs, r1_loc21, r1_loc22),
                               r1_loc21, r1_loc23, r1_loc31, r1_loc32)
       IN add_tweaked(grid, tweaked, LocPermutation_inverse(tweaked),
                      nums_of(grid, LocPermutation_inverse(tweaked)), suffix, list)

add_band_minimizing(grid, locs, suffix, list) ==
  LET inv_locs == LocPermutation_inverse(locs)
  IN add_located(grid, locs, suffix, list,
                 b1_r1_loc(grid, inv_locs, Loc_at(1, 0)), b1_r1_loc(grid, inv_locs, Loc_at(1, 1)),
                 b1_r1_loc(grid, inv_locs, Loc_at(1, 2)), b1_r1_loc(grid, inv_locs, Loc_at(2, 0)),
                 b1_r1_loc(grid, inv_locs, Loc_at(2, 1)))

\* The ordering of the rows of `min` that grid_minimizing sorts by: the
\* row's band, then its numerals, then the row.
row_cmp(min, row1, row2) ==
  LET differ == {col \in 0..8 : min[Loc_at(row1, col)] # min[Loc_at(row2, col)]}
  IN IF differ = {} THEN "Equal"
     ELSE IF min[Loc_at(row1, Min(differ))] < min[Loc_at(row2, Min(differ))] THEN "Less"
     ELSE "Greater"

row_before(min, row1, row2) ==
  \/ row1 \div 3 < row2 \div 3
  \/ /\ row1 \div 3 = row2 \div 3
     /\ \/ row_cmp(min, row1, row2) = "Less"
        \/ row_cmp(min, row1, row2) = "Equal" /\ row1 < row2

\* grid_minimizing's rows after the sort.
sorted_rows(min) ==
  Array([i \in 1..6 |->
    CHOOSE row \in 3..8 : Cardinality({other \in 3..8 : row_before(min, other, row)}) = i - 1])

\* grid_minimizing's permutation, from the sorted rows.
tweak_rows(perm, min, rows) ==
  LET tweaked == [perm.locs EXCEPT
                    !.rows_in_bands[2] = tweak_lines(rows[1] % 3, rows[2] % 3),
                    !.rows_in_bands[3] = tweak_lines(rows[4] % 3, rows[5] % 3)]
  IN [perm EXCEPT !.locs =
        IF row_cmp(min, rows[1], rows[4]) = "Greater"
        THEN LocPermutation_composed_with(
               tweaked, [LocPermutation_identity EXCEPT !.row_bands = cycle(3, <<1, 2>>)])
        ELSE tweaked]

grid_minimized(perm, grid) == [perm |-> perm, min |-> GridPermutation_apply(perm, grid)]

grid_minimizing_from(perm, grid, min) ==
  grid_minimized(tweak_rows(perm, min, sorted_rows(min)), grid)

grid_minimizing(perm, grid) == grid_minimizing_from(perm, grid, GridPermutation_apply(perm, grid))

min_by_uncounted(best, next) ==
  IF Grid_cmp(best.min, next.min) = "Greater"
  THEN [perm |-> next.perm, min |-> next.min, num_total |-> 1]
  ELSE best

\* The step of min_by in `minimizing`: `best` is the least pair so far
\* with the count of the pairs equal to it, `next` the following pair.
min_by(best, next) ==
  LET ordering == Grid_cmp(best.min, next.min)
  IN IF ordering = "Less" THEN best
     ELSE IF ordering = "Equal" THEN [best EXCEPT !.num_total = best.num_total + 1]
     ELSE [perm |-> next.perm, min |-> next.min, num_total |-> 1]

\* band_minimizing's loops, flattened: the LocPermutation of iteration
\* `index` of the 648.
band_seed(index) ==
  [transpose |-> index \div 324 = 1,
   row_bands |-> BAND_PERMS[((index \div 108) % 3) + 1],
   col_bands |-> BAND_PERMS[((index \div 36) % 3) + 1],
   rows_in_bands |-> <<LINE_PERMS[((index \div 6) % 6) + 1], cycle(3, <<>>), cycle(3, <<>>)>>,
   cols_in_bands |-> <<LINE_PERMS[(index % 6) + 1], cycle(3, <<>>), cycle(3, <<>>)>>]

\* ------------------------------------------------ core/grid: Grid and strings

\* A string is the sequence of its characters.
DIGITS == <<"0", "1", "2", "3", "4", "5", "6", "7", "8", "9">>

\* `num.get().fmt(f)`: the decimal digit of a numeral.
digit_char(num) == DIGITS[num + 1]

\* `c.to_digit(10)`
to_digit(c) == (CHOOSE d \in 1..10 : DIGITS[d] = c) - 1

\* Grid's Display: row-major order, with `.` for unassigned squares.
Grid_to_string(grid) ==
  [i \in 1..81 |-> IF grid[i - 1] = 0 THEN "." ELSE digit_char(grid[i - 1])]

\* `[a, b, c].join(sep)`
join3(a, b, c, sep) == a \o sep \o b \o sep \o c

BAND_RULE ==
  << "\n", "-", " ", "-", " ", "-", " ", "+", " ", "-", " ", "-", " ", "-", " ", "+", " ",
     "-", " ", "-", " ", "-", "\n" >>

\* Grid's Debug: the grid as Ascii art.
Grid_debug(grid) ==
  LET flat == Grid_to_string(grid)
      ch(n) == <<flat[n + 1]>>
      subrow(n) == join3(ch(n), ch(n + 1), ch(n + 2), <<" ">>)
      row(n) == join3(subrow(n), subrow(n + 3), subrow(n + 6), <<" ", "|", " ">>)
      band(n) == join3(row(n), row(n + 9), row(n + 18), <<"\n">>)
  IN join3(band(0), band(27), band(54), BAND_RULE)

\* A from_str that took only the digits for location characters.
only_digits_are_locations(c) == \E d \in 1..10 : DIGITS[d] = c

\* `('0'..='9').contains(&c) || c == '.'`
is_location_char(c) == (\E d \in 1..10 : DIGITS[d] = c) \/ c = "."

\* One turn of from_str's loop over the characters; `r` holds `i`, `grid`
\* and whether the loop has returned its error.
from_str_char(r, c) ==
  IF r.err # "" \/ ~is_location_char(c) THEN r
  ELSE IF r.i >= 81 THEN [r EXCEPT !.err = "More than 81 locations"]
  ELSE [ i |-> r.i + 1,
         grid |-> IF c # "0" /\ c # "." THEN [r.grid EXCEPT ![r.i] = to_digit(c)]
                  ELSE r.grid,
         err |-> "" ]

RECURSIVE from_str_chars(_, _, _, _)
\* The loop over characters lo..hi of `s`, in order; it is left where the
\* error is returned.
from_str_chars(s, r, lo, hi) ==
  IF r.err # "" \/ lo > hi THEN r
  ELSE IF lo = hi THEN from_str_char(r, s[lo])
  ELSE LET mid == (lo + hi) \div 2
       IN from_str_chars(s, from_str_chars(s, r, lo, mid), mid + 1, hi)

\* Grid::from_str: Ok(grid) or Err(message).
Grid_from_str(s) ==
  LET r == from_str_chars(s, [i |-> 0, grid |-> Grid_new, err |-> ""], 1, Len(s))
  IN IF r.err # "" THEN [ok |-> FALSE, err |-> r.err]
     ELSE IF r.i = 81 THEN [ok |-> TRUE, grid |-> r.grid]
     ELSE [ok |-> FALSE, err |-> "Fewer than 81 locations"]

\* ------------------------------------------------------------------ deduce

\* A Unit is named by its UnitId: rows 0..8, columns 9..17, blocks 18..26.
Row_unit(row) == row

Col_unit(col) == 9 + col

Blk_unit(blk) == 18 + blk

is_row(unit) == unit < 9

is_col(unit) == unit >= 9 /\ unit < 18

is_blk(unit) == unit >= 18

\* Unit::all(), in the order the facts of find_errors and of
\* find_locked_sets come out: blocks, then rows, then columns.
Unit_all == [i \in 1..27 |-> (i + 17) % 27]

\* Unit::locs
Unit_locs(unit) ==
  IF is_row(unit)
  THEN [LocSet_new EXCEPT ![(unit \div 3) + 1] = Shl(Bits9_ONES, 9 * (unit % 3))]
  ELSE IF is_col(unit)
  THEN LET band_bits == Shl({0, 9, 18}, unit - 9) IN <<band_bits, band_bits, band_bits>>
  ELSE [LocSet_new EXCEPT ![((unit - 18) \div 3) + 1] =
          Shl({0, 1, 2, 9, 10, 11, 18, 19, 20}, 3 * ((unit - 18) % 3))]

\* `a - b` of two LocSets
LocSet_minus(a, b) == Bits3x27_and(a, Bits3x27_not(b))

\* `a <= b` of two LocSets
LocSet_subset(a, b) == a[1] \subseteq b[1] /\ a[2] \subseteq b[2] /\ a[3] \subseteq b[3]

\* Loc::peers
Loc_peers(loc) == calc_peers(loc)

AsgmtSet_new == Array([n \in Nums |-> LocSet_new])

AsgmtSet_or(a, b) == Array([n \in Nums |-> Bits3x27_or(a[n], b[n])])

AsgmtSet_minus(a, b) == Array([n \in Nums |-> LocSet_minus(a[n], b[n])])

num_locs(asgmts, num) == asgmts[num]

union_in_place(asgmts, num, locs) == [asgmts EXCEPT ![num] = Bits3x27_or(@, locs)]

\* AsgmtSet::apply
AsgmtSet_apply(asgmts, num, loc) ==
  Array([n \in Nums |->
           IF n = num THEN Bits3x27_and(asgmts[n], loc_to_zeroed_peers(loc))
           ELSE Bits3x27_and(asgmts[n], Bits3x27_not(LocSet_singleton(loc)))])

\* Asgmt::to_eliminations
to_eliminations(num, loc) ==
  Array([n \in Nums |-> IF n = num THEN Loc_peers(loc) ELSE LocSet_singleton(loc)])

\* The Facts.
SingleLoc(num, unit, loc) == [kind |-> "SingleLoc", num |-> num, unit |-> unit, loc |-> loc]

SingleNum(loc, num) == [kind |-> "SingleNum", loc |-> loc, num |-> num]

SpeculativeAssignment(loc, num) == [kind |-> "SpeculativeAssignment", loc |-> loc, num |-> num]

NoLoc(num, unit) == [kind |-> "NoLoc", num |-> num, unit |-> unit]

NoNum(loc) == [kind |-> "NoNum", loc |-> loc]

Conflict(num, unit, locs) == [kind |-> "Conflict", num |-> num, unit |-> unit, locs |-> locs]

Overlap(num, unit, cross_unit) ==
  [kind |-> "Overlap", num |-> num, unit |-> unit, cross_unit |-> cross_unit]

\* `cross_unit` is None or Some(unit): the empty or a one-element sequence.
LockedSet(nums, unit, locs, cross_unit, is_naked) ==
  [kind |-> "LockedSet", nums |-> nums, unit |-> unit, locs |-> locs,
   cross_unit |-> cross_unit, is_naked |-> is_naked]

Implication(antecedents, consequent) ==
  [kind |-> "Implication", antecedents |-> antecedents, consequent |-> consequent]

RECURSIVE Fact_as_asgmt(_)
\* Fact::as_asgmt: None or Some(<<num, loc>>).
Fact_as_asgmt(fact) ==
  IF fact.kind \in {"SingleLoc", "SingleNum", "SpeculativeAssignment"}
  THEN <<(<<fact.num, fact.loc>>)>>
  ELSE IF fact.kind = "Implication" THEN Fact_as_asgmt(fact.consequent)
  ELSE <<>>

\* An as_eliminations that took an Overlap's locations from where the two
\* units meet.
shared_locs_eliminations(num, unit, cross_unit) ==
  union_in_place(AsgmtSet_new, num, Bits3x27_and(Unit_locs(unit), Unit_locs(cross_unit)))

\* The eliminations of an Overlap.
overlap_eliminations(num, unit, cross_unit) ==
  union_in_place(AsgmtSet_new, num, LocSet_minus(Unit_locs(unit), Unit_locs(cross_unit)))

\* An as_eliminations that took an Overlap's locations from the cross unit.
cross_unit_eliminations(num, unit, cross_unit) ==
  union_in_place(AsgmtSet_new, num, LocSet_minus(Unit_locs(cross_unit), Unit_locs(unit)))

\* `outside_locs` of the eliminations of a LockedSet.
outside_locs(unit, locs, cross_unit) ==
  IF cross_unit = <<>> THEN LocSet_minus(Unit_locs(unit), locs)
  ELSE Bits3x27_or(LocSet_minus(Unit_locs(unit), locs),
                   LocSet_minus(Unit_locs(cross_unit[1]), Unit_locs(unit)))

locked_set_eliminations(nums, unit, locs, cross_unit) ==
  Array([n \in Nums |-> IF n \in nums THEN outside_locs(unit, locs, cross_unit) ELSE locs])

RECURSIVE Fact_as_eliminations(_)
RECURSIVE antecedents_eliminations(_, _, _)
\* The loop of as_eliminations over the antecedents from index i on.
antecedents_eliminations(antecedents, i, answer) ==
  IF i > Len(antecedents) THEN answer
  ELSE antecedents_eliminations(antecedents, i + 1,
                                AsgmtSet_or(answer, Fact_as_eliminations(antecedents[i])))

\* Fact::as_eliminations
Fact_as_eliminations(fact) ==
  IF fact.kind \in {"SingleLoc", "SingleNum", "SpeculativeAssignment"}
  THEN to_eliminations(fact.num, fact.loc)
  ELSE IF fact.kind = "Overlap" THEN overlap_eliminations(fact.num, fact.unit, fact.cross_unit)
  ELSE IF fact.kind = "LockedSet"
  THEN locked_set_eliminations(fact.nums, fact.unit, fact.locs, fact.cross_unit)
  ELSE IF fact.kind = "Implication"
  THEN antecedents_eliminations(fact.antecedents, 1, Fact_as_eliminations(fact.consequent))
  ELSE AsgmtSet_new

\* A `for` loop over lo..hi, unfolded by halves: step(r, i) is the state
\* after turn i from the state r.  The state is looked at before each half,
\* which has it evaluated in the order of the loop.
RECURSIVE loop_over(_, _, _, _)
loop_over(step(_, _), r, lo, hi) ==
  IF lo > hi \/ DOMAIN r = {} THEN r
  ELSE IF lo = hi THEN step(r, lo)
  ELSE loop_over(step, loop_over(step, r, lo, (lo + hi) \div 2), ((lo + hi) \div 2) + 1, hi)

\* The sequences item(lo), ..., item(hi) one after the other.
RECURSIVE concat_over(_, _, _)
concat_over(item(_), lo, hi) ==
  IF lo > hi THEN <<>>
  ELSE IF lo = hi THEN item(lo)
  ELSE concat_over(item, lo, (lo + hi) \div 2) \o concat_over(item, ((lo + hi) \div 2) + 1, hi)

\* A SukakuMap: `grid`, the NumSet of each location (that of location loc
\* at index loc + 1), and `has_error`.
SukakuMap_all == [grid |-> Array([i \in 1..81 |-> Nums]), has_error |-> FALSE]

\* Index<Loc> for SukakuMap
SukakuMap_at(map, loc) == map.grid[loc + 1]

\* SukakuMap::eliminate: eliminate_one of every elimination; the error is
\* a location that loses its last numeral.
SukakuMap_eliminate(map, eliminations) ==
  [grid |-> Array([i \in 1..81 |->
                     {n \in map.grid[i] : ~LocSet_contains(eliminations[n], i - 1)}]),
   has_error |-> map.has_error \/
                 \E loc \in Locs : /\ SukakuMap_at(map, loc) # {}
                                   /\ \A n \in SukakuMap_at(map, loc) :
                                        LocSet_contains(eliminations[n], loc)]

\* SukakuMap::apply
SukakuMap_apply(map, num, loc) ==
  SukakuMap_eliminate(
    [grid |-> [map.grid EXCEPT ![loc + 1] = {}],
     has_error |-> map.has_error \/ num \notin SukakuMap_at(map, loc)],
    union_in_place(AsgmtSet_new, num, Loc_peers(loc)))

SukakuMap_from_grid(grid) ==
  loop_over(LAMBDA map, loc : IF grid[loc] = 0 THEN map
                              ELSE SukakuMap_apply(map, grid[loc], loc),
            SukakuMap_all, 0, 80)

\* AsgmtSet::possibles_from_grid: all the assignments consistent with each
\* of the grid's.
possibles_from_grid(grid) ==
  loop_over(LAMBDA asgmts, loc : IF grid[loc] = 0 THEN asgmts
                                 ELSE AsgmtSet_apply(asgmts, grid[loc], loc),
            AsgmtSet_all, 0, 80)

\* AsgmtSet::simple_from_grid: the grid's own assignments.
simple_from_grid(grid) ==
  Array([n \in Nums |->
           <<{loc \in 0..26 : grid[loc] = n}, {loc \in 0..26 : grid[loc + 27] = n},
             {loc \in 0..26 : grid[loc + 54] = n}>>])

\* AsgmtSet::naked_singles: the locations with exactly one assignment.
naked_singles(asgmts) ==
  LET sd == mins_from(asgmts, 1, LocSet_new, LocSet_new, LocSet_new)
  IN Bits3x27_xor(sd[1], sd[2])

\* Fact::might_be_revealed_by_eliminations
might_be_revealed_by_eliminations(fact, eliminations) ==
  IF fact.kind \in {"SingleLoc", "NoLoc", "Overlap"}
  THEN ~LocSet_is_empty(Bits3x27_and(num_locs(eliminations, fact.num), Unit_locs(fact.unit)))
  ELSE IF fact.kind \in {"SingleNum", "NoNum"}
  THEN \E num \in Nums : LocSet_contains(num_locs(eliminations, num), fact.loc)
  ELSE IF fact.kind = "LockedSet"
  THEN LET nums_to_check == IF fact.is_naked THEN Nums \ fact.nums ELSE fact.nums
           locs_to_check == IF fact.is_naked THEN fact.locs
                            ELSE LocSet_minus(Unit_locs(fact.unit), fact.locs)
       IN \E num \in nums_to_check :
            ~LocSet_is_empty(Bits3x27_and(num_locs(eliminations, num), locs_to_check))
  ELSE FALSE

\* Fact::uses_sukaku_map
uses_sukaku_map(fact) ==
  IF fact.kind \in {"SingleNum", "NoNum"} THEN TRUE
  ELSE IF fact.kind = "LockedSet" THEN fact.is_naked
  ELSE FALSE

\* Fact::is_implied_by
is_implied_by(fact, remaining_asgmts, sukaku_map) ==
  IF fact.kind = "SingleLoc"
  THEN Bits3x27_and(num_locs(remaining_asgmts, fact.num), Unit_locs(fact.unit)) =
       LocSet_singleton(fact.loc)
  ELSE IF fact.kind = "SingleNum" THEN SukakuMap_at(sukaku_map, fact.loc) = {fact.num}
  ELSE IF fact.kind = "NoLoc"
  THEN LocSet_is_empty(Bits3x27_and(num_locs(remaining_asgmts, fact.num),
                                    Unit_locs(fact.unit)))
  ELSE IF fact.kind = "NoNum" THEN SukakuMap_at(sukaku_map, fact.loc) = {}
  ELSE IF fact.kind = "Overlap"
  THEN LocSet_is_empty(
         LocSet_minus(Bits3x27_and(num_locs(remaining_asgmts, fact.num), Unit_locs(fact.unit)),
                      Unit_locs(fact.cross_unit)))
  ELSE IF fact.kind = "LockedSet"
  THEN IF fact.is_naked
       THEN \A loc \in LocSet_items(fact.locs) : SukakuMap_at(sukaku_map, loc) \subseteq fact.nums
       ELSE \A num \in fact.nums :
              LocSet_subset(Bits3x27_and(num_locs(remaining_asgmts, num), Unit_locs(fact.unit)),
                            fact.locs)
  ELSE FALSE

\* `eliminations[0..index]` folded with `|` onto `acc`.
or_all(eliminations, index, acc) ==
  loop_over(LAMBDA r, i : AsgmtSet_or(r, eliminations[i]), acc, 1, index)

\* Whether narrow_antecedents finds that the consequent requires the
\* antecedent at `index` (counted from 1), given what it has pushed so far.
requires(consequent, index, antecedent_eliminations, remaining_asgmts, sukaku_map, result_eliminations) ==
  /\ might_be_revealed_by_eliminations(consequent, antecedent_eliminations[index])
  /\ LET prior == or_all(antecedent_eliminations, index - 1, result_eliminations)
     IN ~is_implied_by(consequent, AsgmtSet_minus(remaining_asgmts, prior),
                       IF uses_sukaku_map(consequent)
                       THEN SukakuMap_eliminate(sukaku_map, prior) ELSE sukaku_map)

\* One turn of narrow_antecedents's loop, `result` being built the right
\* way round.
narrow_step(consequent, antecedents, antecedent_eliminations, remaining_asgmts, sukaku_map, r, index) ==
  IF requires(consequent, index, antecedent_eliminations, remaining_asgmts, sukaku_map,
              r.result_eliminations)
  THEN [result |-> <<antecedents[index]>> \o r.result,
        result_eliminations |->
          AsgmtSet_or(r.result_eliminations, antecedent_eliminations[index])]
  ELSE r

\* A narrowing that kept every antecedent.
all_antecedents(consequent, antecedents, antecedent_eliminations, remaining_asgmts, sukaku_map) ==
  antecedents

narrow_antecedents(consequent, antecedents, antecedent_eliminations, remaining_asgmts, sukaku_map) ==
  loop_over(LAMBDA r, i : narrow_step(consequent, antecedents, antecedent_eliminations,
                                      remaining_asgmts, sukaku_map, r,
                                      Len(antecedents) + 1 - i),
            [result |-> <<>>, result_eliminations |-> AsgmtSet_new],
            1, Len(antecedents)).result

\* Collector::add_fact: `found` holds every fact ever pushed.
add_fact(collector, fact) ==
  IF fact \in collector.found THEN collector
  ELSE [collector EXCEPT !.facts = Append(@, fact), !.found = @ \cup {fact}]

\* add_fact of each of `facts` in turn.
add_facts(collector, facts) ==
  loop_over(LAMBDA r, i : add_fact(r, facts[i]), collector, 1, Len(facts))

\* The elements of a set of integers in ascending order.
RECURSIVE ascending(_)
ascending(S) == IF S = {} THEN <<>> ELSE <<Min(S)>> \o ascending(S \ {Min(S)})

\* What find_errors adds for one unit and numeral.
unit_errors(collector, unit, num) ==
  LET actual_locs == Bits3x27_and(num_locs(collector.actual_asgmts, num), Unit_locs(unit))
      possible_locs ==
        Bits3x27_and(Bits3x27_or(num_locs(collector.remaining_asgmts, num),
                                 num_locs(collector.actual_asgmts, num)),
                     Unit_locs(unit))
  IN (IF LocSet_len(actual_locs) > 1 THEN <<Conflict(num, unit, actual_locs)>> ELSE <<>>) \o
     (IF LocSet_is_empty(possible_locs) THEN <<NoLoc(num, unit)>> ELSE <<>>)

\* find_errors's loop over the locations without an actual assignment.
no_num_errors(collector, loc) ==
  IF /\ ~LocSet_contains(naked_singles(collector.actual_asgmts), loc)
     /\ SukakuMap_at(collector.sukaku_map, loc) = {}
  THEN <<NoNum(loc)>> ELSE <<>>

find_errors(collector) ==
  add_facts(collector,
            concat_over(LAMBDA k : unit_errors(collector, Unit_all[(k \div 9) + 1], (k % 9) + 1),
                        0, 27 * 9 - 1) \o
            concat_over(LAMBDA loc : no_num_errors(collector, loc), 0, 80))

\* blk_col_bit, as a truth value.
blk_col_bit(locs, row_band, col_band, blk_line) ==
  LET blk_bits == Shr(locs[row_band + 1], col_band * 3)
      blk_col_bits == blk_bits \cup Shr(blk_bits, 9) \cup Shr(blk_bits, 18)
  IN blk_line \in blk_col_bits

col_band_locs_to_blk_cols(locs, band, blk_line) ==
  {row_band \in 0..2 : blk_col_bit(locs, row_band, band, blk_line)}

locs_to_blk_cols(locs, band) ==
  from_bits3s(col_band_locs_to_blk_cols(locs, band, 0),
              col_band_locs_to_blk_cols(locs, band, 1),
              col_band_locs_to_blk_cols(locs, band, 2))

\* BandOverlapSpec::to_index
to_index(band_unit, cross_unit) == band_unit * 3 + cross_unit

blk_line_bits_to_overlap_specs_impl_unrolled_blk(bits, blk) ==
  LET blk_bits == {0, 3, 6} \cap Shr(bits, blk)
      line == Only(blk_bits) \div 3
      line_bits == (0..2) \cap Shr(bits, line * 3)
  IN IF Cardinality(blk_bits) = 1 /\ Cardinality(line_bits) > 1
     THEN {to_index(blk, line)} ELSE {}

blk_line_bits_to_overlap_specs_impl_unrolled_line(bits, line) ==
  LET line_bits == (0..2) \cap Shr(bits, line * 3)
      blk == Only(line_bits)
      blk_bits == {0, 3, 6} \cap Shr(bits, blk)
  IN IF Cardinality(line_bits) = 1 /\ Cardinality(blk_bits) > 1
     THEN {to_index(line + 3, blk)} ELSE {}

\* The set of the indices of the specs.
blk_line_bits_to_overlap_specs_impl(bits) ==
  UNION {blk_line_bits_to_overlap_specs_impl_unrolled_blk(bits, k) : k \in 0..2} \cup
  UNION {blk_line_bits_to_overlap_specs_impl_unrolled_line(bits, k) : k \in 0..2}

OVERLAP_SPEC_SETS == [b \in SUBSET Bits9_ONES |-> blk_line_bits_to_overlap_specs_impl(b)]

blk_line_bits_to_overlap_specs(blk_line_bits) == OVERLAP_SPEC_SETS[blk_line_bits]

\* BandOverlapSpec::to_row_band_overlap of the spec of index `spec`.
to_row_band_overlap(spec, num, row_band) ==
  IF spec \div 3 < 3
  THEN Overlap(num, Blk_unit((spec \div 3) + 3 * row_band),
               Row_unit((spec % 3) + 3 * row_band))
  ELSE Overlap(num, Row_unit((spec \div 3) - 3 + 3 * row_band),
               Blk_unit((spec % 3) + 3 * row_band))

\* BandOverlapSpec::to_col_band_overlap of the spec of index `spec`.
to_col_band_overlap(spec, num, col_band) ==
  IF spec \div 3 < 3
  THEN Overlap(num, Blk_unit(3 * (spec \div 3) + col_band),
               Col_unit((spec % 3) + 3 * col_band))
  ELSE Overlap(num, Col_unit((spec \div 3) - 3 + 3 * col_band),
               Blk_unit(3 * (spec % 3) + col_band))

\* What find_overlaps adds for one numeral and band.
band_overlaps(collector, num, band) ==
  LET these == num_locs(collector.remaining_asgmts, num)
      row_specs == ascending(blk_line_bits_to_overlap_specs(band_locs_to_blk_rows(these[band + 1])))
      col_specs == ascending(blk_line_bits_to_overlap_specs(locs_to_blk_cols(these, band)))
  IN [i \in 1..Len(row_specs) |-> to_row_band_overlap(row_specs[i], num, band)] \o
     [i \in 1..Len(col_specs) |-> to_col_band_overlap(col_specs[i], num, band)]

find_overlaps(collector) ==
  add_facts(collector,
            concat_over(LAMBDA k : band_overlaps(collector, (k \div 3) + 1, k % 3), 0, 26))

MAX_SET_SIZE == 4

\* SetState::new; an absent key reads as the default, the empty set.
SetState_new == [nums |-> [unit \in UnitIds |-> {}], locs |-> [unit \in UnitIds |-> LocSet_new]]

SetState_add(set_state, unit, nums, locs) ==
  [nums |-> [set_state.nums EXCEPT ![unit] = @ \cup nums],
   locs |-> [set_state.locs EXCEPT ![unit] = Bits3x27_or(@, locs)]]

\* find_overlapping_unit: None or Some(unit).
find_overlapping_unit(unit, locs) ==
  IF is_blk(unit)
  THEN LET row_band == (unit - 18) \div 3
           col_band == (unit - 18) % 3
           blk_row_bits == band_locs_to_blk_rows(locs[row_band + 1])
           blk_col_bits == locs_to_blk_cols(locs, col_band)
       IN IF Cardinality(blk_row_bits) = 1
          THEN <<Row_unit(row_band * 3 + (Only(Shr(blk_row_bits, col_band)) \div 3))>>
          ELSE IF Cardinality(blk_col_bits) = 1
          THEN <<Col_unit(col_band * 3 + (Only(Shr(blk_col_bits, row_band)) \div 3))>>
          ELSE <<>>
  ELSE IF is_row(unit)
  THEN LET blk_row_bits == band_locs_to_blk_rows(locs[(unit \div 3) + 1])
       IN IF Cardinality(blk_row_bits) = 1
          THEN <<Blk_unit((unit \div 3) * 3 + Only(Shr(blk_row_bits, 3 * (unit % 3))))>>
          ELSE <<>>
  ELSE LET blk_col_bits == locs_to_blk_cols(locs, (unit - 9) \div 3)
       IN IF Cardinality(blk_col_bits) = 1
          THEN <<Blk_unit(Only(Shr(blk_col_bits, 3 * ((unit - 9) % 3))) * 3 +
                          ((unit - 9) \div 3))>>
          ELSE <<>>

RECURSIVE combinations(_, _, _)
\* `items.combinations(size)`: the sets of `size` of the items from index
\* i on, in lexicographic order.
combinations(items, i, size) ==
  IF size = 0 THEN << {} >>
  ELSE IF Len(items) - i + 1 < size THEN <<>>
  ELSE LET with == combinations(items, i + 1, size - 1)
       IN [k \in 1..Len(with) |-> {items[i]} \cup with[k]] \o combinations(items, i + 1, size)

\* What a set found adds: the fact to the collector, the set to the state
\* of its unit and of its cross unit.  `r` holds `collector`, `set_state`
\* and the local `in_sets`.
with_locked_set(r, unit, nums, locs, is_naked) ==
  LET cross_unit == find_overlapping_unit(unit, locs)
      added == SetState_add(r.set_state, unit, nums, locs)
  IN [collector |-> add_fact(r.collector, LockedSet(nums, unit, locs, cross_unit, is_naked)),
      set_state |-> IF cross_unit = <<>> THEN added
                    ELSE SetState_add(added, cross_unit[1], nums, locs),
      in_sets |-> r.in_sets \cup (IF is_naked THEN LocSet_items(locs) ELSE nums)]

\* The locations of a unit that the numerals of a combination may take.
locs_of_nums(collector, unit, nums) ==
  LET at(band) == UNION {num_locs(collector.remaining_asgmts, num)[band] : num \in nums}
  IN Bits3x27_and(<<at(1), at(2), at(3)>>, Unit_locs(unit))

\* One turn of find_hidden_sets's loop over the combinations.
hidden_set_step(r, unit, size, combination) ==
  IF combination \cap r.in_sets # {} THEN r
  ELSE IF LocSet_len(locs_of_nums(r.collector, unit, combination)) = size
  THEN with_locked_set(r, unit, combination, locs_of_nums(r.collector, unit, combination),
                       FALSE)
  ELSE r

\* A LocSet of the given locations.
LocSet_of(locs) ==
  <<{loc \in locs : loc < 27}, Shr({loc \in locs : loc < 54}, 27), Shr(locs, 54)>>

\* One turn of find_naked_sets's loop over the combinations.
naked_set_step(r, unit, size, combination) ==
  LET nums == UNION {SukakuMap_at(r.collector.sukaku_map, loc) : loc \in combination}
  IN IF combination \cap r.in_sets # {} THEN r
     ELSE IF Cardinality(nums) = size
     THEN with_locked_set(r, unit, nums, LocSet_of(combination), TRUE)
     ELSE r

\* The loop over the combinations.
sets_loop(r, unit, size, combos, is_naked) ==
  loop_over(LAMBDA s, i : IF is_naked THEN naked_set_step(s, unit, size, combos[i])
                          ELSE hidden_set_step(s, unit, size, combos[i]),
            r, 1, Len(combos))

\* find_hidden_sets, on `r` holding `collector` and `set_state`.
find_hidden_sets(r, unit, size) ==
  LET possible_size(num) ==
        LocSet_len(Bits3x27_and(num_locs(r.collector.remaining_asgmts, num), Unit_locs(unit)))
      nums_in_sets == r.set_state.nums[unit]
      unset_count == Cardinality({num \in Nums : possible_size(num) > 1})
      nums_to_check ==
        {num \in Nums : /\ possible_size(num) > 1
                        /\ possible_size(num) <= size
                        /\ num \notin nums_in_sets}
      done == sets_loop([collector |-> r.collector, set_state |-> r.set_state,
                         in_sets |-> nums_in_sets],
                        unit, size, combinations(ascending(nums_to_check), 1, size), FALSE)
  IN IF Cardinality(nums_to_check) >= size /\ unset_count > size
     THEN [collector |-> done.collector, set_state |-> done.set_state]
     ELSE r

\* find_naked_sets, on `r` holding `collector` and `set_state`.
find_naked_sets(r, unit, size) ==
  LET possible_size(loc) == Cardinality(SukakuMap_at(r.collector.sukaku_map, loc))
      unit_locs == LocSet_items(Unit_locs(unit))
      locs_in_sets == LocSet_items(r.set_state.locs[unit])
      unset_count == Cardinality({loc \in unit_locs : possible_size(loc) > 1})
      locs_to_check ==
        {loc \in unit_locs : /\ possible_size(loc) > 1
                             /\ possible_size(loc) <= size
                             /\ loc \notin locs_in_sets}
      done == sets_loop([collector |-> r.collector, set_state |-> r.set_state,
                         in_sets |-> locs_in_sets],
                        unit, size, combinations(ascending(locs_to_check), 1, size), TRUE)
  IN IF Cardinality(locs_to_check) >= size /\ unset_count > size
     THEN [collector |-> done.collector, set_state |-> done.set_state]
     ELSE r

\* find_locked_sets's loops over the sizes and the units, k counting both.
locked_sets_loop(r, is_naked) ==
  loop_over(LAMBDA s, k : IF is_naked
                          THEN find_naked_sets(s, Unit_all[(k % 27) + 1], 2 + (k \div 27))
                          ELSE find_hidden_sets(s, Unit_all[(k % 27) + 1], 2 + (k \div 27)),
            r, 0, (MAX_SET_SIZE - 1) * 27 - 1)

find_locked_sets(collector) ==
  locked_sets_loop(
    locked_sets_loop([collector |-> collector, set_state |-> SetState_new], FALSE),
    TRUE).collector

blk_line_bits_to_band_units_impl_unrolled_blk(bits, blk) ==
  IF Cardinality({0, 3, 6} \cap Shr(bits, blk)) = 1 THEN {blk} ELSE {}

blk_line_bits_to_band_units_impl_unrolled_line(bits, line) ==
  IF Cardinality((0..2) \cap Shr(bits, line * 3)) = 1 THEN {line + 3} ELSE {}

blk_line_bits_to_band_units_impl(bits) ==
  UNION {blk_line_bits_to_band_units_impl_unrolled_blk(bits, k) : k \in 0..2} \cup
  UNION {blk_line_bits_to_band_units_impl_unrolled_line(bits, k) : k \in 0..2}

HIDDEN_SINGLES_UNITS == [b \in SUBSET Bits9_ONES |-> blk_line_bits_to_band_units_impl(b)]

blk_line_bits_to_band_units(bits) == HIDDEN_SINGLES_UNITS[bits]

blk_line_bits_to_possible_hidden_single_units(blk_row_bits, blk_col_bits, band) ==
  {IF band_unit < 3 THEN Blk_unit(band_unit + 3 * band) ELSE Row_unit(band_unit - 3 + 3 * band) :
     band_unit \in blk_line_bits_to_band_units(blk_row_bits)} \cup
  {Col_unit(band_unit - 3 + 3 * band) :
     band_unit \in {u \in blk_line_bits_to_band_units(blk_col_bits) : u >= 3}}

\* `units_to_check` of find_hidden_singles for one numeral.
units_to_check(these) ==
  UNION {blk_line_bits_to_possible_hidden_single_units(
           band_locs_to_blk_rows(these[band + 1]), locs_to_blk_cols(these, band), band) :
         band \in 0..2}

\* One turn of find_hidden_singles's loop over the units to check of one
\* numeral; `r` holds the facts to add and `locs_found`.
hidden_single_step(r, these, num, unit) ==
  LET unit_locs == Bits3x27_and(these, Unit_locs(unit))
      loc == LocSet_smallest_item(unit_locs)
  IN IF unit \notin units_to_check(these) \/ LocSet_len(unit_locs) # 1
        \/ loc \in r.locs_found
     THEN r
     ELSE [facts |-> Append(r.facts, SingleLoc(num, unit, loc)),
           locs_found |-> r.locs_found \cup {loc}]

\* What find_hidden_singles adds for one numeral, UnitSet's iter being in
\* the order of Unit::all.
hidden_singles_of(collector, num) ==
  loop_over(LAMBDA r, i : hidden_single_step(r, num_locs(collector.remaining_asgmts, num),
                                             num, Unit_all[i]),
            [facts |-> <<>>, locs_found |-> {}], 1, 27).facts

find_hidden_singles(collector) ==
  add_facts(collector, concat_over(LAMBDA num : hidden_singles_of(collector, num), 1, 9))

naked_single_of(collector, loc) ==
  IF Cardinality(SukakuMap_at(collector.sukaku_map, loc)) = 1
  THEN <<SingleNum(loc, Only(SukakuMap_at(collector.sukaku_map, loc)))>> ELSE <<>>

find_naked_singles(collector) ==
  add_facts(collector, concat_over(LAMBDA loc : naked_single_of(collector, loc), 0, 80))

\* Collector::new
Collector_new(remaining_asgmts, actual_asgmts, sukaku_map) ==
  [remaining_asgmts |-> remaining_asgmts, actual_asgmts |-> actual_asgmts,
   sukaku_map |-> sukaku_map, facts |-> <<>>, found |-> {}]

\* The locals of Collector::collect as its loop starts.
collect_locals(collector) ==
  [antecedents |-> <<>>, antecedent_eliminations |-> <<>>,
   remaining_asgmts |-> collector.remaining_asgmts, sukaku_map |-> collector.sukaku_map,
   start |-> 0, eliminations_start |-> 0, eliminations_end |-> 0, eliminations |-> <<>>]

\* as_eliminations of each of `facts[from..to]`.
eliminations_of(facts, from, to) ==
  Array([i \in 1..(to - from) |-> Fact_as_eliminations(facts[from + i])])

\* The facts from `start` on, made implications of the antecedents.
wrapped(facts, locals) ==
  Array([i \in 1..Len(facts) |->
     IF i <= locals.start \/ locals.antecedents = <<>> THEN facts[i]
     ELSE Implication(narrow_antecedents(facts[i], locals.antecedents,
                                         locals.antecedent_eliminations,
                                         locals.remaining_asgmts, locals.sukaku_map),
                      facts[i])])

\* The end of a turn of collect's loop that goes on to another turn.
eliminated(collector, all_eliminated_asgmts) ==
  [collector EXCEPT
     !.remaining_asgmts = AsgmtSet_minus(@, all_eliminated_asgmts),
     !.sukaku_map = SukakuMap_eliminate(@, all_eliminated_asgmts)]

\* FactFinder::new
FactFinder_new(grid) ==
  [remaining_asgmts |-> AsgmtSet_minus(possibles_from_grid(grid), simple_from_grid(grid)),
   actual_asgmts |-> simple_from_grid(grid),
   sukaku_map |-> SukakuMap_from_grid(grid)]

\* FactFinder::apply_fact
apply_fact(finder, fact) ==
  IF Fact_as_asgmt(fact) # <<>>
  THEN LET num == Fact_as_asgmt(fact)[1][1]
           loc == Fact_as_asgmt(fact)[1][2]
       IN [remaining_asgmts |->
             [AsgmtSet_apply(finder.remaining_asgmts, num, loc) EXCEPT
                ![num] = LocSet_minus(@, LocSet_singleton(loc))],
           actual_asgmts |-> union_in_place(finder.actual_asgmts, num, LocSet_singleton(loc)),
           sukaku_map |-> SukakuMap_apply(finder.sukaku_map, num, loc)]
  ELSE [remaining_asgmts |-> AsgmtSet_minus(finder.remaining_asgmts,
                                            Fact_as_eliminations(fact)),
        actual_asgmts |-> finder.actual_asgmts,
        sukaku_map |-> SukakuMap_eliminate(finder.sukaku_map, Fact_as_eliminations(fact))]

\* ---------------------------------------------------------- Fact::complexity

\* The numerals of the consequent alone.
RECURSIVE consequent_nums(_)
consequent_nums(fact) ==
  IF fact.kind \in {"SingleLoc", "SingleNum", "SpeculativeAssignment", "Overlap"}
  THEN {fact.num}
  ELSE IF fact.kind = "LockedSet" THEN fact.nums
  ELSE IF fact.kind = "Implication" THEN consequent_nums(fact.consequent)
  ELSE {}

RECURSIVE Fact_nums(_)
\* Fact::nums
Fact_nums(fact) ==
  IF fact.kind \in {"SingleLoc", "SingleNum", "SpeculativeAssignment", "Overlap"}
  THEN {fact.num}
  ELSE IF fact.kind = "LockedSet" THEN fact.nums
  ELSE IF fact.kind = "Implication"
  THEN Fact_nums(fact.consequent) \cup
       UNION {Fact_nums(fact.antecedents[i]) : i \in 1..Len(fact.antecedents)}
  ELSE {}

RECURSIVE Fact_complexity(_)
\* Fact::complexity
Fact_complexity(fact) ==
  IF fact.kind \in {"SingleLoc", "SingleNum", "SpeculativeAssignment"} THEN "Simple"
  ELSE IF fact.kind = "Overlap" THEN "Moderate"
  ELSE IF fact.kind = "LockedSet"
  THEN IF Cardinality(fact.nums) <= 3 /\ ~fact.is_naked
       THEN IF is_blk(fact.unit) THEN "Moderate" ELSE "Complex"
       ELSE "Complex"
  ELSE IF fact.kind = "Implication"
  THEN IF Cardinality(Fact_nums(fact)) = 1 THEN "Moderate"
       ELSE IF /\ Len(fact.antecedents) = 1
               /\ fact.antecedents[1].kind = "LockedSet"
               /\ fact.consequent.kind # "Implication"
       THEN Fact_complexity(fact.antecedents[1])
       ELSE "Complex"
  ELSE "Complex"

\* -------------------------------------------------------------- Sym::evaluate

filled_count(orbit, clue_grid) == Cardinality({loc \in orbit : clue_grid[loc] # 0})

\* One turn of the loop of Sym::evaluate.
evaluate_orbit(m, orbit, clue_grid) ==
  [full_orbits |->
     IF filled_count(orbit, clue_grid) = Cardinality(orbit) THEN Append(m.full_orbits, orbit)
     ELSE m.full_orbits,
   num_nonconforming_locs |->
     m.num_nonconforming_locs +
       Min({filled_count(orbit, clue_grid), Cardinality(orbit) - filled_count(orbit, clue_grid)}),
   partial_orbits |->
     IF filled_count(orbit, clue_grid) \in 1..(Cardinality(orbit) - 1)
     THEN Append(m.partial_orbits, orbit)
     ELSE m.partial_orbits]

\* The loop of Sym::evaluate over the orbits.
evaluate_orbits(orbits, clue_grid) ==
  loop_over(LAMBDA m, i : evaluate_orbit(m, orbits[i], clue_grid),
            [full_orbits |-> <<>>, num_nonconforming_locs |-> 0, partial_orbits |-> <<>>],
            1, Len(orbits))

\* Sym::evaluate
Sym_evaluate(sym_, clue_grid) == evaluate_orbits(Sym_orbits(sym_), clue_grid)

\* SymMatch::is_complete
SymMatch_is_complete(m) == m.num_nonconforming_locs = 0

\* ------------------------------------------------------- the order of syms

\* SYMS: the symmetries in the order the matcher tries them.
SYMS ==
  <<"FullyReflective", "Rotation90", "DoubleMirror", "MirrorX", "MirrorY", "DoubleDiagonal",
    "DiagonalMain", "DiagonalAnti", "Rotation180", "BlockwiseMain", "BlockwiseAnti", "None">>

is_mirror(sym_) == sym_ \in {"MirrorX", "MirrorY"}

is_diagonal(sym_) == sym_ \in {"DiagonalMain", "DiagonalAnti"}

is_blockwise(sym_) == sym_ \in {"BlockwiseMain", "BlockwiseAnti"}

cmp_never_none(other, lesser, greater) == IF other \in lesser THEN "Less" ELSE "Greater"

\* The arm of Sym::partial_cmp for a symmetry with the given lesser and
\* greater symmetries.
cmp_arm(other, lesser, greater) ==
  IF other \in lesser THEN "Less"
  ELSE IF other \in greater THEN "Greater"
  ELSE "None"

\* Sym::partial_cmp: "Less", "Equal", "Greater", or "None" for incomparable.
Sym_partial_cmp(self, other) ==
  IF self = other THEN "Equal"
  ELSE CASE self = "Rotation180" ->
              cmp_arm(other, {"Rotation90", "DoubleMirror", "DoubleDiagonal", "FullyReflective"},
                      {"None"})
         [] self = "Rotation90" -> cmp_arm(other, {"FullyReflective"}, {"Rotation180", "None"})
         [] is_mirror(self) -> cmp_arm(other, {"DoubleMirror", "FullyReflective"}, {"None"})
         [] self = "DoubleMirror" ->
              cmp_arm(other, {"FullyReflective"},
                      {"Rotation180", "MirrorX", "MirrorY", "None"})
         [] is_diagonal(self) -> cmp_arm(other, {"DoubleDiagonal", "FullyReflective"}, {"None"})
         [] self = "DoubleDiagonal" ->
              cmp_arm(other, {"FullyReflective"},
                      {"Rotation180", "DiagonalMain", "DiagonalAnti", "None"})
         [] self = "FullyReflective" ->
              cmp_arm(other, {},
                      {"Rotation180", "Rotation90", "MirrorX", "MirrorY", "DoubleMirror",
                       "DiagonalMain", "DiagonalAnti", "DoubleDiagonal", "None"})
         [] is_blockwise(self) -> cmp_arm(other, {}, {"None"})
         [] self = "None" -> "Less"

\* Sym's `>`
Sym_gt(self, other) == Sym_partial_cmp(self, other) = "Greater"

never_omitted(answer, sym_, m) == FALSE

\* The inner loop of Sym::best_matches: a previously accepted greater
\* symmetry keeps the symmetry out of the answer.
is_omitted(answer, sym_, m) ==
  \E i \in 1..Len(answer) :
    /\ Sym_gt(answer[i].sym, sym_)
    /\ (~SymMatch_is_complete(m) \/ SymMatch_is_complete(answer[i].m) \/ sym_ = "None")

\* One turn of the outer loop of Sym::best_matches, for a symmetry and its
\* match.
best_matches_turn(answer, sym_, m, max_nonconforming_locs) ==
  IF m.num_nonconforming_locs > max_nonconforming_locs THEN answer
  ELSE IF is_omitted(answer, sym_, m) THEN answer
  ELSE Append(answer, [sym |-> sym_, m |-> m])

\* One step of the stable sort: the entry goes behind the sorted entries
\* that do not count more nonconforming locations.
sorted_insert(sorted, entry) ==
  SubSeq(sorted, 1,
         Cardinality({i \in 1..Len(sorted) :
                        sorted[i].m.num_nonconforming_locs <= entry.m.num_nonconforming_locs}))
    \o <<entry>> \o
  SubSeq(sorted,
         Cardinality({i \in 1..Len(sorted) :
                        sorted[i].m.num_nonconforming_locs <= entry.m.num_nonconforming_locs}) + 1,
         Len(sorted))

\* Vec::sort_by on the nonconforming counts (a stable sort).
sort_by_nonconforming(answer) ==
  loop_over(LAMBDA r, i : [sorted |-> sorted_insert(r.sorted, answer[i])],
            [sorted |-> <<>>], 1, Len(answer)).sorted

\* Sym::best_matches
best_matches(clues, max_nonconforming_locs) ==
  sort_by_nonconforming(
    loop_over(LAMBDA r, i :
                [answer |-> best_matches_turn(r.answer, SYMS[i], Sym_evaluate(SYMS[i], clues),
                                              max_nonconforming_locs)],
              [answer |-> <<>>], 1, Len(SYMS)).answer)

\* One turn of the loop of AsgmtSet::from_grid, for a location: an
\* assignment of the grid that the set no longer contains makes the grid
\* invalid.
from_grid_turn(r, grid, loc) ==
  IF ~r.ok \/ grid[loc] = 0 THEN r
  ELSE IF ~AsgmtSet_contains(r.asgmts, grid[loc], loc) THEN [ok |-> FALSE, asgmts |-> r.asgmts]
  ELSE [ok |-> TRUE, asgmts |-> AsgmtSet_apply(r.asgmts, grid[loc], loc)]

\* AsgmtSet::from_grid
AsgmtSet_from_grid(grid) ==
  loop_over(LAMBDA r, loc : from_grid_turn(r, grid, loc),
            [ok |-> TRUE, asgmts |-> AsgmtSet_all], 0, 80)

\* ------------------------------------------------------- core/bits bit_at

\* Option<Self> of bit_at and Option<i32> of value_at, and the panic of a
\* failed debug assertion.
Bits_None == [kind |-> "None"]

Bits_Some(v) == [kind |-> "Some", v |-> v]

Bits_panic == [kind |-> "panic"]

\* The end of the binary search: debug_assert_eq!(i, 0), which a build
\* with debug assertions checks, then Some(1 << lo).
bit_at_found(i, lo, debug_assertions) ==
  IF debug_assertions /\ i # 0 THEN Bits_panic ELSE Bits_Some({lo})

RECURSIVE bit_at_search(_, _, _, _, _)
\* The loop of bit_at of an integer type: the lower half of lo..hi is
\* counted and the search goes on in the half that holds the i-th bit.
bit_at_search(bits, i, lo, hi, debug_assertions) ==
  LET half_width == (hi - lo) \div 2
      this_count == Cardinality(bits \cap (lo..(lo + half_width - 1)))
  IN IF i >= this_count
     THEN IF half_width = 1 THEN bit_at_found(i - this_count, lo + half_width, debug_assertions)
          ELSE bit_at_search(bits, i - this_count, lo + half_width, hi, debug_assertions)
     ELSE IF half_width = 1 THEN bit_at_found(i, lo, debug_assertions)
          ELSE bit_at_search(bits, i, lo, hi - half_width, debug_assertions)

\* bit_at of u8, u16, u32: `capacity` is the width of the integer.
int_bit_at(bits, i, capacity, debug_assertions) ==
  IF i >= Cardinality(bits) THEN Bits_None
  ELSE bit_at_search(bits, i, 0, capacity, debug_assertions)

\* The width of the integer behind a type.
int_capacity(ty) ==
  CASE ty \in {"u8", "Bits3"} -> 8
    [] ty \in {"u16", "Bits9"} -> 16
    [] ty \in {"u32", "Bits18", "Bits27"} -> 32

is_array_bits(ty) == ty \in {"Bits3x27", "Bits9x3x27"}

nested_bits(ty) == IF ty = "Bits9x3x27" THEN "Bits3x27" ELSE "Bits27"

Bits_capacity(ty) ==
  CASE ty = "Bits3" -> 3
    [] ty = "Bits9" -> 9
    [] ty = "Bits18" -> 18
    [] ty = "Bits27" -> 27
    [] ty = "Bits3x27" -> 81
    [] ty = "Bits9x3x27" -> 729
    [] OTHER -> int_capacity(ty)

RECURSIVE Bits_len(_, _)
\* len: count_ones of an integer, the sum of the lens of an array.
Bits_len(ty, bits) ==
  IF is_array_bits(ty)
  THEN loop_over(LAMBDA r, j : [sum |-> r.sum + Bits_len(nested_bits(ty), bits[j])],
                 [sum |-> 0], 1, Len(bits)).sum
  ELSE Cardinality(bits)

\* ZERO of an array type.
Bits_ZERO(ty) == IF ty = "Bits9x3x27" THEN AsgmtSet_new ELSE LocSet_new

\* `*answer.0.get_unchecked_mut(j) = bits.bit_at(i)?` and the return.
bit_in_word(ty, j, nested) ==
  IF nested.kind = "Some" THEN Bits_Some([Bits_ZERO(ty) EXCEPT ![j] = nested.v]) ELSE nested

RECURSIVE Bits_bit_at(_, _, _, _)
RECURSIVE array_bit_at(_, _, _, _, _)
\* The loop of bit_at of an array type, from its word j on.
array_bit_at(ty, bits, i, j, debug_assertions) ==
  IF j > Len(bits) THEN Bits_None
  ELSE IF i < Bits_len(nested_bits(ty), bits[j])
       THEN bit_in_word(ty, j, Bits_bit_at(nested_bits(ty), bits[j], i, debug_assertions))
       ELSE array_bit_at(ty, bits, i - Bits_len(nested_bits(ty), bits[j]), j + 1,
                         debug_assertions)

\* Bits::bit_at of each type: the wrapped types hand on to their integer.
Bits_bit_at(ty, bits, i, debug_assertions) ==
  IF is_array_bits(ty) THEN array_bit_at(ty, bits, i, 1, debug_assertions)
  ELSE int_bit_at(bits, i, int_capacity(ty), debug_assertions)

RECURSIVE Bits_smallest_value(_, _)
RECURSIVE array_smallest_value(_, _, _)
\* The loop of smallest_value of an array type, from its word j on.
array_smallest_value(ty, bits, j) ==
  IF j > Len(bits) THEN Bits_None
  ELSE IF bits[j] # (IF ty = "Bits9x3x27" THEN LocSet_new ELSE {})
       THEN Bits_Some((j - 1) * Bits_capacity(nested_bits(ty))
                        + Bits_smallest_value(nested_bits(ty), bits[j]).v)
       ELSE array_smallest_value(ty, bits, j + 1)

\* Bits::smallest_value
Bits_smallest_value(ty, bits) ==
  IF is_array_bits(ty) THEN array_smallest_value(ty, bits, 1)
  ELSE IF bits = {} THEN Bits_None
  ELSE Bits_Some(Min(bits))

\* `let bit = self.bit_at(i)?; bit.smallest_value()`
value_of_bit(ty, bit) == IF bit.kind = "Some" THEN Bits_smallest_value(ty, bit.v) ELSE bit

\* Bits::value_at
Bits_value_at(ty, bits, i, debug_assertions) ==
  value_of_bit(ty, Bits_bit_at(ty, bits, i, debug_assertions))

\* Set::item_at of a LocSet: from_bits_value makes the Loc of the value.
LocSet_item_at_checked(set, n, debug_assertions) ==
  Bits_value_at("Bits3x27", set, n, debug_assertions)

\* `max_pivots` is None (<<>>) or Some(k) (<<k>>): the test of
\* Searcher::run's loop that the pivots traversed leave some of the budget.
\* A `run` that stops at nothing but an empty stack or a solution.
unlimited(max_pivots, pivots) == TRUE

within_budget(max_pivots, pivots) ==
  IF max_pivots = <<>> THEN TRUE ELSE pivots < max_pivots[1]

\* One turn of Searcher::run's loop: the searchers it may leave, each with
\* whether the loop breaks.
run_turn(helper_, s) ==
  IF next_is_last(Top(s.stack)) THEN run_last(helper_, s) ELSE run_copy(helper_, s)

RECURSIVE run_turns(_, _)
\* The loop of run(None) for a helper that decides in one way only: the
\* searcher when the stack is empty or the loop breaks.
run_turns(helper_, s) ==
  IF s.stack = <<>> THEN s
  ELSE CHOOSE left \in {IF r.break THEN r.s ELSE run_turns(helper_, r.s) :
                          r \in run_turn(helper_, s)} : TRUE

\* Searcher::run(None) but for total_pivots.
run_none(helper_, s) == run_turns(helper_, [s EXCEPT !.found = <<>>])

RECURSIVE found_by_runs(_, _)
\* What successive run(None) calls leave in `found`, up to the call that
\* leaves None.
found_by_runs(helper_, s) ==
  CHOOSE all \in {IF t.found = <<>> THEN <<>> ELSE t.found \o found_by_runs(helper_, t) :
                    t \in {run_none(helper_, s)}} : TRUE

\* ------------------------------------------------------- `solve` step by step

\* The caller of `solve`: its arguments, the Searcher and SolutionSummary
\* it builds, the pivot count of the `run` in progress, and where it is.
VARIABLES pc, clues, max_solutions, helper, searcher, summary, count

solve_vars == <<pc, clues, max_solutions, helper, searcher, summary, count>>

\* gen_puzzle's arguments; the symmetry of the improve_puzzle in progress;
\* the orbits its loop, or gen_simple_puzzle's, has still to visit; the
\* locals `ledger`, `answer`, `clues` and `summary`; and where it is.
VARIABLES g_pc, g_solution, g_sym, g_broken, g_improper, g_random, g_pass_sym, g_orbits,
          g_ledger, g_answer, g_clues, g_summary

gen_vars ==
  <<g_pc, g_solution, g_sym, g_broken, g_improper, g_random, g_pass_sym, g_orbits, g_ledger,
    g_answer, g_clues, g_summary>>

\* A GridPermutation and a grid that compose, invert and apply_in_place
\* change: the operation last called, its argument, the permutation and the
\* grid before it, and the number of calls so far.
VARIABLES p_pc, p_perm, p_grid, p_op, p_other, p_prev, p_steps

perm_vars == <<p_pc, p_perm, p_grid, p_op, p_other, p_prev, p_steps>>

\* GridPermutation::minimizing: its argument, band_minimizing's loop index,
\* `suffix` and `answer`, the number of partials min_by has taken, its
\* accumulator with `num_total`, and where it is.
VARIABLES m_pc, m_grid, m_index, m_suffix, m_list, m_taken, m_best

min_vars == <<m_pc, m_grid, m_index, m_suffix, m_list, m_taken, m_best>>

\* A grid, the string Display or Debug formats it into, and what from_str
\* parses from the string.
VARIABLES s_pc, s_grid, s_form, s_text, s_result

str_vars == <<s_pc, s_grid, s_form, s_text, s_result>>

\* A FactFinder, the Collector of its `deduce` with the locals of `collect`,
\* how many facts have been applied, and where it is.
VARIABLES d_pc, d_finder, d_collector, d_locals, d_applied

deduce_vars == <<d_pc, d_finder, d_collector, d_locals, d_applied>>

\* A call of one function on its own: where the call is, the function, its
\* argument and what it returned.
VARIABLES c_pc, c_fn, c_arg, c_result

call_vars == <<c_pc, c_fn, c_arg, c_result>>

rest_vars == <<perm_vars, min_vars, str_vars, deduce_vars, call_vars>>

not_perm_vars == <<solve_vars, gen_vars, min_vars, str_vars, deduce_vars, call_vars>>

not_min_vars == <<solve_vars, gen_vars, perm_vars, str_vars, deduce_vars, call_vars>>

not_str_vars == <<solve_vars, gen_vars, perm_vars, min_vars, deduce_vars, call_vars>>

not_deduce_vars == <<solve_vars, gen_vars, perm_vars, min_vars, str_vars, call_vars>>

not_call_vars == <<solve_vars, gen_vars, perm_vars, min_vars, str_vars, deduce_vars>>

vars == <<solve_vars, gen_vars, rest_vars>>

not_solve_vars == <<gen_vars, rest_vars>>

not_gen_vars == <<solve_vars, rest_vars>>

NoSummary == [clues |-> Grid_new, too_many_solutions |-> FALSE, solutions |-> <<>>]

SolveIdle ==
  /\ pc = "idle"
  /\ clues = Grid_new
  /\ max_solutions = 0
  /\ helper = "DefaultHelper"
  /\ searcher = NoSearcher
  /\ summary = NoSummary
  /\ count = 0

GenIdle ==
  /\ g_pc = "idle"
  /\ g_solution = Grid_new
  /\ g_sym = "None"
  /\ g_broken = FALSE
  /\ g_improper = FALSE
  /\ g_random = 0
  /\ g_pass_sym = "None"
  /\ g_orbits = <<>>
  /\ g_ledger = Ledger_all
  /\ g_answer = Grid_new
  /\ g_clues = Grid_new
  /\ g_summary = NoSummary

NoBest == [perm |-> GridPermutation_identity, min |-> Grid_new, num_total |-> 0]

PermIdle ==
  /\ p_pc = "idle"
  /\ p_perm = GridPermutation_identity
  /\ p_grid = Grid_new
  /\ p_op = "new"
  /\ p_other = GridPermutation_identity
  /\ p_prev = GridPermutation_identity
  /\ p_steps = 0

MinIdle ==
  /\ m_pc = "idle"
  /\ m_grid = Grid_new
  /\ m_index = 0
  /\ m_suffix = <<>>
  /\ m_list = <<>>
  /\ m_taken = 0
  /\ m_best = NoBest

StrIdle ==
  /\ s_pc = "idle"
  /\ s_grid = Grid_new
  /\ s_form = "Display"
  /\ s_text = <<>>
  /\ s_result = [ok |-> FALSE]

NoCollector == Collector_new(AsgmtSet_new, AsgmtSet_new, SukakuMap_all)

DeduceIdle ==
  /\ d_pc = "idle"
  /\ d_finder = [remaining_asgmts |-> AsgmtSet_new, actual_asgmts |-> AsgmtSet_new,
                 sukaku_map |-> SukakuMap_all]
  /\ d_collector = NoCollector
  /\ d_locals = collect_locals(NoCollector)
  /\ d_applied = 0

CallIdle ==
  /\ c_pc = "idle"
  /\ c_fn = ""
  /\ c_arg = <<>>
  /\ c_result = <<>>

\* Every part but `running` (and `solve` and gen_puzzle) is idle.
RestIdleBut(running) ==
  /\ IF running = "perm" THEN TRUE ELSE PermIdle
  /\ IF running = "min" THEN TRUE ELSE MinIdle
  /\ IF running = "str" THEN TRUE ELSE StrIdle
  /\ IF running = "deduce" THEN TRUE ELSE DeduceIdle
  /\ IF running = "call" THEN TRUE ELSE CallIdle

RestIdle == RestIdleBut("none")

InitSolve ==
  /\ GenIdle
  /\ RestIdle
  /\ pc = "solve"
  /\ \E input \in Inputs : clues = input[1] /\ helper = input[2]
  /\ max_solutions \in -1..MaxMaxSolutions
  /\ searcher = NoSearcher
  /\ summary = NoSummary
  /\ count = 0

\* solve, up to its loop: the factory, the searcher and the summary.
SolveNew ==
  /\ pc = "solve"
  /\ \E s \in new_searcher(helper, SearcherFactory_new(clues)) :
       /\ searcher' = s
       /\ summary' = [clues |-> clues, too_many_solutions |-> FALSE, solutions |-> s.found]
  /\ pc' = "while"
  /\ UNCHANGED <<clues, max_solutions, helper, count>>
  /\ UNCHANGED not_solve_vars

\* The loop's test succeeds and searcher.run(None) begins.
SolveWhile ==
  /\ pc = "while"
  /\ Len(summary.solutions) <= max_of(max_solutions)
  /\ searcher' = [searcher EXCEPT !.found = <<>>]
  /\ count' = 0
  /\ pc' = "run"
  /\ UNCHANGED <<clues, max_solutions, helper, summary>>
  /\ UNCHANGED not_solve_vars

RunLast ==
  /\ pc = "run"
  /\ searcher.stack # <<>>
  /\ next_is_last(Top(searcher.stack))
  /\ \E r \in run_last(helper, searcher) :
       /\ searcher' = r.s
       /\ pc' = IF r.break THEN "break" ELSE "run"
  /\ count' = count + 1
  /\ UNCHANGED <<clues, max_solutions, helper, summary>>
  /\ UNCHANGED not_solve_vars

RunCopy ==
  /\ pc = "run"
  /\ searcher.stack # <<>>
  /\ ~next_is_last(Top(searcher.stack))
  /\ \E r \in run_copy(helper, searcher) :
       /\ searcher' = r.s
       /\ pc' = IF r.break THEN "break" ELSE "run"
  /\ count' = count + 1
  /\ UNCHANGED <<clues, max_solutions, helper, summary>>
  /\ UNCHANGED not_solve_vars

\* run returns, and solve pushes what it found or leaves its loop.
RunReturn ==
  /\ pc = "break" \/ (pc = "run" /\ searcher.stack = <<>>)
  /\ searcher' = [searcher EXCEPT !.total_pivots = @ + count]
  /\ IF searcher.found # <<>>
     THEN /\ summary' = [summary EXCEPT !.solutions = Append(@, searcher.found[1])]
          /\ pc' = "while"
     ELSE /\ summary' = summary
          /\ pc' = "after"
  /\ UNCHANGED <<clues, max_solutions, helper, count>>
  /\ UNCHANGED not_solve_vars

SolveReturn ==
  /\ pc = "after" \/ (pc = "while" /\ Len(summary.solutions) > max_of(max_solutions))
  /\ summary' = [summary EXCEPT !.too_many_solutions = Len(summary.solutions) > max_of(max_solutions)]
  /\ pc' = "done"
  /\ UNCHANGED <<clues, max_solutions, helper, searcher, count>>
  /\ UNCHANGED not_solve_vars

Next == SolveNew \/ SolveWhile \/ RunLast \/ RunCopy \/ RunReturn \/ SolveReturn

Spec == InitSolve /\ [][Next]_vars

\* ------------------------------------------------- `gen_puzzle` step by step

\* The arguments gen_puzzle is run on: solution, sym, broken, improper.
ImproperSyms ==
  {"Rotation90", "MirrorY", "DoubleMirror", "DiagonalAnti", "FullyReflective", "BlockwiseAnti"}

GenInputs ==
  {<<SolvedBase, sym_, FALSE, sym_ \in ImproperSyms>> : sym_ \in Syms}
    \cup {<<SolvedOther, "Rotation90", TRUE, FALSE>>,
          <<SolvedOther, "FullyReflective", TRUE, TRUE>>}

InitGen ==
  /\ SolveIdle
  /\ RestIdle
  /\ g_pc = "gen_puzzle"
  /\ \E input \in GenInputs :
       /\ g_solution = input[1]
       /\ g_sym = input[2]
       /\ g_broken = input[3]
       /\ g_improper = input[4]
  /\ g_random \in 0..MaxShuffle
  /\ g_pass_sym = g_sym
  /\ g_orbits = <<>>
  /\ g_ledger = Ledger_all
  /\ g_answer = Grid_new
  /\ g_clues = Grid_new
  /\ g_summary = NoSummary

\* gen_puzzle calls gen_simple_puzzle, which makes its ledger and answer
\* and shuffles the orbits.
SimpleNew ==
  /\ g_pc = "gen_puzzle"
  /\ g_ledger' = Ledger_new(Grid_new).ledger
  /\ g_answer' = Grid_new
  /\ g_orbits' = shuffled_orbits(g_sym, g_random)
  /\ g_random' = g_random + 1
  /\ g_pc' = "simple"
  /\ UNCHANGED <<g_solution, g_sym, g_broken, g_improper, g_pass_sym, g_clues, g_summary>>
  /\ UNCHANGED not_gen_vars

simple_next(r) ==
  /\ g_ledger' = r.ledger
  /\ g_answer' = r.answer
  /\ g_pc' = IF r.ok THEN "simple" ELSE "panic"

SimpleOrbit ==
  /\ g_pc = "simple"
  /\ g_orbits # <<>>
  /\ simple_next(simple_orbit(g_ledger, g_answer, g_solution, Head(g_orbits)))
  /\ g_orbits' = Tail(g_orbits)
  /\ UNCHANGED <<g_random, g_solution, g_sym, g_broken, g_improper, g_pass_sym, g_clues,
                 g_summary>>
  /\ UNCHANGED not_gen_vars

\* gen_simple_puzzle returns its answer, gen_puzzle's `clues`.
SimpleReturn ==
  /\ g_pc = "simple"
  /\ g_orbits = <<>>
  /\ g_clues' = g_answer
  /\ g_pc' = "improve"
  /\ UNCHANGED <<g_random, g_solution, g_sym, g_broken, g_improper, g_pass_sym, g_orbits, g_ledger,
                 g_answer, g_summary>>
  /\ UNCHANGED not_gen_vars

\* A call of solve(grid, max, DefaultHelper()).
call_solve(grid, max) ==
  /\ pc' = "solve"
  /\ clues' = grid
  /\ max_solutions' = max
  /\ helper' = "DefaultHelper"
  /\ searcher' = NoSearcher
  /\ summary' = NoSummary
  /\ count' = 0

\* improve_puzzle, up to its loop: the shuffled orbits, and the call of
\* solve for the first summary.
ImproveNew ==
  /\ g_pc = "improve"
  /\ g_orbits' = shuffled_orbits(g_pass_sym, g_random)
  /\ g_random' = g_random + 1
  /\ call_solve(g_clues, limits(g_improper).solutions)
  /\ g_pc' = "first_solve"
  /\ UNCHANGED <<g_solution, g_sym, g_broken, g_improper, g_pass_sym, g_ledger, g_answer,
                 g_clues, g_summary>>
  /\ UNCHANGED rest_vars

ImproveFirst ==
  /\ g_pc = "first_solve"
  /\ pc = "done"
  /\ g_summary' = summary
  /\ g_pc' = "orbit"
  /\ pc' = "idle"
  /\ UNCHANGED <<g_random, g_solution, g_sym, g_broken, g_improper, g_pass_sym, g_orbits, g_ledger,
                 g_answer, g_clues>>
  /\ UNCHANGED <<clues, max_solutions, helper, searcher, summary, count>>
  /\ UNCHANGED rest_vars

\* An iteration of improve_puzzle's loop, up to its call of solve on the
\* clues without the orbit.
ImproveOrbit ==
  /\ g_pc = "orbit"
  /\ g_orbits # <<>>
  /\ call_solve(Blank(g_clues, Head(g_orbits)), limits(g_improper).solutions)
  /\ g_orbits' = Tail(g_orbits)
  /\ g_pc' = "next_solve"
  /\ UNCHANGED <<g_random, g_solution, g_sym, g_broken, g_improper, g_pass_sym, g_ledger, g_answer,
                 g_clues, g_summary>>
  /\ UNCHANGED rest_vars

improve_next(sum) ==
  /\ g_summary' = sum
  /\ g_clues' = sum.clues

\* The rest of the iteration, from the summary solve returned.
ImproveNext ==
  /\ g_pc = "next_solve"
  /\ pc = "done"
  /\ improve_next(improve_orbit(g_summary, summary, limits(g_improper)))
  /\ g_pc' = "orbit"
  /\ pc' = "idle"
  /\ UNCHANGED <<g_random, g_solution, g_sym, g_broken, g_improper, g_pass_sym, g_orbits, g_ledger,
                 g_answer>>
  /\ UNCHANGED <<clues, max_solutions, helper, searcher, summary, count>>
  /\ UNCHANGED rest_vars

\* improve_puzzle returns; gen_puzzle improves again without symmetry
\* when `broken`, or returns.
ImproveReturn ==
  /\ g_pc = "orbit"
  /\ g_orbits = <<>>
  /\ IF g_broken /\ g_pass_sym # "None"
     THEN /\ g_pass_sym' = "None"
          /\ g_clues' = g_summary.clues
          /\ g_pc' = "improve"
     ELSE /\ g_pass_sym' = g_pass_sym
          /\ g_clues' = g_clues
          /\ g_pc' = "done"
  /\ UNCHANGED <<g_random, g_solution, g_sym, g_broken, g_improper, g_orbits, g_ledger, g_answer,
                 g_summary>>
  /\ UNCHANGED not_gen_vars

NextGen ==
  \/ SimpleNew \/ SimpleOrbit \/ SimpleReturn
  \/ ImproveNew \/ ImproveFirst \/ ImproveOrbit \/ ImproveNext \/ ImproveReturn
  \/ SolveNew \/ SolveWhile \/ RunLast \/ RunCopy \/ RunReturn \/ SolveReturn

SpecGen == InitGen /\ [][NextGen]_vars

\* ------------------------------------------------------ what `solve` returns

\* Two locations that share a row, a column or a block.
SameUnit(a, b) ==
  \/ a \div 9 = b \div 9
  \/ a % 9 = b % 9
  \/ (a \div 27 = b \div 27 /\ (a % 9) \div 3 = (b % 9) \div 3)

PeersOf == Array([i \in 1..81 |-> {m \in Locs : m # i - 1 /\ SameUnit(i - 1, m)}])

Candidates(grid, loc) == Nums \ {grid[m] : m \in PeersOf[loc + 1]}

Unset(grid) == {loc \in Locs : grid[loc] = 0}

FewestCandidates(grid, unset) ==
  CHOOSE loc \in unset :
    \A other \in unset :
      Cardinality(Candidates(grid, loc)) <= Cardinality(Candidates(grid, other))

ExtendAt(grid, loc) == {[grid EXCEPT ![loc] = n] : n \in Candidates(grid, loc)}

Extend(grid, unset) ==
  IF unset = {} THEN {grid} ELSE ExtendAt(grid, FewestCandidates(grid, unset))

RECURSIVE Extensions(_, _)
\* The grids left by setting one more location, up to 2^k times over.
Extensions(grids, k) ==
  IF \A g \in grids : Unset(g) = {} THEN grids
  ELSE IF k = 0 THEN UNION {Extend(g, Unset(g)) : g \in grids}
  ELSE Extensions(Extensions(grids, k - 1), k - 1)

Consistent(grid) ==
  \A loc \in Locs : grid[loc] # 0 => \A m \in PeersOf[loc + 1] : grid[m] # grid[loc]

\* Every solved grid that agrees with the clues: with each location set to
\* a numeral none of its peers has.
Completions(grid) == IF Consistent(grid) THEN Extensions({grid}, 7) ELSE {}

PuzzleList == <<Broken19, NoSolution25, Pivots24, BrokenBase, Blank(BrokenBase, Rectangles[2])>>
                \o [k \in 1..(MaxRectangles + 1) |-> BlankRectangles(k - 1)]

CompletionsList == Array([i \in 1..Len(PuzzleList) |-> Completions(PuzzleList[i])])

AllSolutions(grid) == CompletionsList[CHOOSE i \in 1..Len(PuzzleList) : PuzzleList[i] = grid]

\* A grid with every location set, and each numeral once in every row,
\* column and block.
SolvedAndValid(grid) ==
  \A id \in UnitIds : {grid[loc] : loc \in UnitId_locs(id)} = Nums

Agrees(grid, clue_grid) == \A loc \in Locs : clue_grid[loc] # 0 => grid[loc] = clue_grid[loc]

Returned == {summary.solutions[i] : i \in 1..Len(summary.solutions)}

SolveDone == pc = "done"

\* C1: when solve returns too_many_solutions = false, every solution of the
\* clues is in summary.solutions, whichever helper chose the pivots.
C1_EverySolutionReturned ==
  (SolveDone /\ ~summary.too_many_solutions) => AllSolutions(clues) \subseteq Returned

C1_Witness ==
  /\ SolveDone
  /\ ~summary.too_many_solutions
  /\ Cardinality(AllSolutions(clues)) >= 2
  /\ AllSolutions(clues) \subseteq Returned
  /\ helper = "RandomPivotHelper"

\* C2: every grid solve puts in summary.solutions, and every grid a run
\* leaves in searcher.found, is a solved grid with valid rows, columns and
\* blocks that agrees with the clues.
C2_SolutionsSolved ==
  /\ \A g \in Returned : SolvedAndValid(g) /\ Agrees(g, clues)
  /\ \A i \in 1..Len(searcher.found) :
       SolvedAndValid(searcher.found[i]) /\ Agrees(searcher.found[i], clues)

C2_Witness ==
  /\ SolveDone
  /\ Len(summary.solutions) >= 2
  /\ searcher.total_pivots >= 2
  /\ \A g \in Returned : SolvedAndValid(g) /\ Agrees(g, clues)

\* C3: for clues with N solutions, solve returns min(N, max + 1) distinct
\* solutions where max = max(0, max_solutions), and too_many_solutions is
\* true exactly when N > max.
C3_SolutionCount ==
  SolveDone =>
    LET N == Cardinality(AllSolutions(clues))
        max == IF max_solutions > 0 THEN max_solutions ELSE 0
    IN  /\ Len(summary.solutions) = (IF N < max + 1 THEN N ELSE max + 1)
        /\ Cardinality(Returned) = Len(summary.solutions)
        /\ summary.too_many_solutions <=> N > max

C3_Witness ==
  /\ SolveDone
  /\ Cardinality(AllSolutions(clues)) > max_solutions + 1
  /\ max_solutions >= 1
  /\ Len(summary.solutions) = max_solutions + 1
  /\ summary.too_many_solutions

\* C4: for clues whose Grid::state is Broken, Ledger::new returns
\* Err(Invalid), and solve returns no solutions with too_many_solutions
\* false.
C4_BrokenClues ==
  Grid_state(clues).state = "Broken" =>
    /\ ~Ledger_new(clues).ok
    /\ summary.solutions = <<>>
    /\ ~summary.too_many_solutions
    /\ searcher.found = <<>>

C4_Witness ==
  /\ SolveDone
  /\ Grid_state(clues).state = "Broken"
  /\ ~Ledger_new(clues).ok
  /\ summary.solutions = <<>>

\* ------------------------------------------------- what `gen_puzzle` returns

GenDone == g_pc = "done"

GenSolutions == {g_summary.solutions[i] : i \in 1..Len(g_summary.solutions)}

\* The locations where two of the summary's solutions differ.
GenHoles == {loc \in Locs : \E a \in GenSolutions, b \in GenSolutions : a[loc] # b[loc]}

\* C5: the summary gen_puzzle returns has the given solved grid among its
\* solutions, and has exactly one solution and no holes when improper is
\* false, at most 3 solutions and at most 7 holes when improper is true.
C5_GenPuzzleBounds ==
  GenDone =>
    /\ g_solution \in GenSolutions
    /\ IF g_improper
       THEN Len(g_summary.solutions) <= 3 /\ Cardinality(GenHoles) <= 7
       ELSE Len(g_summary.solutions) = 1 /\ Cardinality(GenHoles) = 0

C5_Witness ==
  /\ GenDone
  /\ g_improper
  /\ g_solution \in GenSolutions
  /\ Len(g_summary.solutions) = 3
  /\ Cardinality(GenHoles) = 7
  /\ Grid_len(g_summary.clues) < 40

\* gen_simple_puzzle has just returned its clue grid to gen_puzzle.
SimpleDone == g_pc = "improve" /\ g_pass_sym = g_sym

SimpleSolved(implied) ==
  /\ implied.ok
  /\ is_complete(implied.ledger)
  /\ Ledger_to_grid(implied.ledger).grid = g_solution

SimpleChecked(new) == new.ok /\ SimpleSolved(apply_implications(new.ledger))

\* C6: the clue grid gen_simple_puzzle returns is solved without a pivot:
\* Ledger::new of it followed by apply_implications succeeds, and leaves
\* the ledger complete with to_grid equal to the given solution.
C6_SimplePuzzleSolves ==
  /\ g_pc # "panic"
  /\ SimpleDone => SimpleChecked(Ledger_new(g_clues))

C6_Witness ==
  /\ SimpleDone
  /\ g_sym = "DoubleDiagonal"
  /\ Grid_len(g_clues) < 50
  /\ SimpleChecked(Ledger_new(g_clues))

\* ------------------------------------------------ permutations step by step

\* The permutations and grids of permute.rs's tests.  A cycle of numerals
\* is written with their indices: cycle!(Num; 1, 3, 2) is cycle(9, <<0, 2, 1>>).
TestRandomPerm ==
  [nums |-> cycle(9, <<0, 6, 4, 5, 7, 3, 1, 8>>),
   locs |-> [transpose |-> FALSE,
             row_bands |-> cycle(3, <<0, 1, 2>>),
             col_bands |-> cycle(3, <<0, 2, 1>>),
             rows_in_bands |-> <<cycle(3, <<0, 2, 1>>), cycle(3, <<0, 2>>), cycle(3, <<0, 1, 2>>)>>,
             cols_in_bands |-> <<cycle(3, <<1, 2>>), cycle(3, <<0, 1, 2>>), cycle(3, <<1, 2>>)>>]]

TestMinimizingPerm ==
  [nums |-> cycle(9, <<0, 5, 3, 1, 8, 7, 4, 2, 6>>),
   locs |-> [transpose |-> TRUE,
             row_bands |-> cycle(3, <<0, 1, 2>>),
             col_bands |-> cycle(3, <<0, 1>>),
             rows_in_bands |-> <<cycle(3, <<1, 2>>), cycle(3, <<0, 2, 1>>), cycle(3, <<1, 2>>)>>,
             cols_in_bands |-> <<cycle(3, <<0, 2, 1>>), cycle(3, <<>>), cycle(3, <<>>)>>]]

TestLocsInversePerm ==
  [nums |-> cycle(9, <<0, 2, 1>>),
   locs |-> [transpose |-> TRUE,
             row_bands |-> cycle(3, <<0, 1, 2>>),
             col_bands |-> cycle(3, <<0, 2>>),
             rows_in_bands |-> <<cycle(3, <<0, 1, 2>>), cycle(3, <<0, 2>>), cycle(3, <<0, 1>>)>>,
             cols_in_bands |-> <<cycle(3, <<0, 2>>), cycle(3, <<>>), cycle(3, <<0, 2, 1>>)>>]]

Perms == {GridPermutation_identity, TestRandomPerm, TestMinimizingPerm, TestLocsInversePerm}

symmetric_grid == Grid_of(<<
  1,2,3,4,5,6,7,8,9,
  4,5,6,7,8,9,1,2,3,
  7,8,9,1,2,3,4,5,6,
  2,3,4,5,6,7,8,9,1,
  5,6,7,8,9,1,2,3,4,
  8,9,1,2,3,4,5,6,7,
  3,4,5,6,7,8,9,1,2,
  6,7,8,9,1,2,3,4,5,
  9,1,2,3,4,5,6,7,8 >>)

asymmetric_grid == Grid_of(<<
  5,7,2,9,8,1,6,4,3,
  6,1,4,2,7,3,8,5,9,
  8,9,3,4,5,6,1,7,2,
  3,8,6,7,9,4,5,2,1,
  2,4,9,5,1,8,7,3,6,
  7,5,1,3,6,2,4,9,8,
  1,2,5,6,4,9,3,8,7,
  4,3,8,1,2,7,9,6,5,
  9,6,7,8,3,5,2,1,4 >>)

PermGrids == {asymmetric_grid, SolvedBase}

MaxOps == 2

InitPerm ==
  /\ SolveIdle
  /\ GenIdle
  /\ RestIdleBut("perm")
  /\ p_pc = "run"
  /\ p_perm \in Perms
  /\ p_grid \in PermGrids
  /\ p_op = "new"
  /\ p_other = GridPermutation_identity
  /\ p_prev = p_perm
  /\ p_steps = 0

\* GroupElement::compose: the permutation is composed with `other` in place.
PermCompose ==
  /\ p_pc = "run"
  /\ p_steps < MaxOps
  /\ \E other \in Perms :
       /\ p_perm' = GridPermutation_composed_with(p_perm, other)
       /\ p_other' = other
  /\ p_prev' = p_perm
  /\ p_op' = "compose"
  /\ p_steps' = p_steps + 1
  /\ UNCHANGED <<p_pc, p_grid>>
  /\ UNCHANGED not_perm_vars

\* GroupElement::invert: the permutation is inverted in place.
PermInvert ==
  /\ p_pc = "run"
  /\ p_steps < MaxOps
  /\ p_perm' = GridPermutation_inverse(p_perm)
  /\ p_prev' = p_perm
  /\ p_op' = "invert"
  /\ p_steps' = p_steps + 1
  /\ UNCHANGED <<p_pc, p_grid, p_other>>
  /\ UNCHANGED not_perm_vars

\* GridPermutation::apply_to_solved_in_place: the grid is permuted in place.
PermApply ==
  /\ p_pc = "run"
  /\ p_steps < MaxOps
  /\ p_grid' = GridPermutation_apply(p_perm, p_grid)
  /\ p_prev' = p_perm
  /\ p_op' = "apply"
  /\ p_steps' = p_steps + 1
  /\ UNCHANGED <<p_pc, p_perm, p_other>>
  /\ UNCHANGED not_perm_vars

NextPerm == PermCompose \/ PermInvert \/ PermApply

SpecPerm == InitPerm /\ [][NextPerm]_vars

\* ----------------------------------------------------- minimizing step by step

MinGrids == {symmetric_grid, asymmetric_grid, SolvedBase}

\* The number of permutations band_minimizing's loops try.
BandSeeds == 2 * 3 * 3 * 6 * 6

InitMin ==
  /\ SolveIdle
  /\ GenIdle
  /\ RestIdleBut("min")
  /\ m_pc = "band_minimizing"
  /\ m_grid \in MinGrids
  /\ m_index = 0
  /\ m_suffix = [i \in 1..LocSet_len(SUFFIX_LOCS) |-> 9]
  /\ m_list = <<>>
  /\ m_taken = 0
  /\ m_best = NoBest

band_minimizing_next(r) == m_suffix' = r.suffix /\ m_list' = r.list

\* One iteration of band_minimizing's innermost loop.
AddBandMinimizing ==
  /\ m_pc = "band_minimizing"
  /\ m_index < BandSeeds
  /\ band_minimizing_next(add_band_minimizing(m_grid, band_seed(m_index), m_suffix, m_list))
  /\ m_index' = m_index + 1
  /\ UNCHANGED <<m_pc, m_grid, m_taken, m_best>>
  /\ UNCHANGED not_min_vars

BandMinimizingReturn ==
  /\ m_pc = "band_minimizing"
  /\ m_index = BandSeeds
  /\ m_pc' = "min_by"
  /\ UNCHANGED <<m_grid, m_index, m_suffix, m_list, m_taken, m_best>>
  /\ UNCHANGED not_min_vars

min_by_next(next) ==
  m_best' = IF m_taken = 0 THEN [perm |-> next.perm, min |-> next.min, num_total |-> 1]
            ELSE min_by(m_best, next)

\* `minimizing` maps the next partial with grid_minimizing and min_by
\* compares it with the least so far.
MinBy ==
  /\ m_pc = "min_by"
  /\ m_taken < Len(m_list)
  /\ min_by_next(grid_minimizing(m_list[m_taken + 1], m_grid))
  /\ m_taken' = m_taken + 1
  /\ UNCHANGED <<m_pc, m_grid, m_index, m_suffix, m_list>>
  /\ UNCHANGED not_min_vars

\* min_by is out of partials: unwrap panics when there was none.
MinimizingReturn ==
  /\ m_pc = "min_by"
  /\ m_taken = Len(m_list)
  /\ m_pc' = IF m_taken = 0 THEN "panic" ELSE "done"
  /\ UNCHANGED <<m_grid, m_index, m_suffix, m_list, m_taken, m_best>>
  /\ UNCHANGED not_min_vars

NextMin == AddBandMinimizing \/ BandMinimizingReturn \/ MinBy \/ MinimizingReturn

SpecMin == InitMin /\ [][NextMin]_vars

\* ------------------------------------------ what the permutations do (claims)

\* LocPermutation::apply is a bijection on the locations that takes every
\* row, column and block onto a row, column or block.
UnitsOntoUnits(locs) ==
  /\ {LocPermutation_apply(locs, loc) : loc \in Locs} = Locs
  /\ \A id \in UnitIds : \E onto \in UnitIds :
       {LocPermutation_apply(locs, loc) : loc \in UnitId_locs(id)} = UnitId_locs(onto)

\* Claim C8: a GridPermutation applied to a valid solved grid gives a valid
\* solved grid, its LocPermutation being a bijection on the locations that
\* maps units onto units.
C8_ApplyKeepsSolved ==
  p_pc = "run" => SolvedAndValid(p_grid) /\ UnitsOntoUnits(p_perm.locs)

C8_Witness ==
  /\ p_op = "apply"
  /\ p_steps = MaxOps
  /\ p_perm.locs.transpose
  /\ p_grid \notin PermGrids
  /\ SolvedAndValid(p_grid)

\* The grids composition and identity are compared on: the current grid
\* and a grid with unset locations.
ComparedGrids == {p_grid, Pivots24}

\* Claim C9: composition is left to right: applying p1.composed_with(p2)
\* to a grid gives what applying p2 to the result of applying p1 gives.
C9_ComposeLeftToRight ==
  p_op = "compose" =>
    \A grid \in ComparedGrids :
      GridPermutation_apply(p_perm, grid)
        = GridPermutation_apply(p_other, GridPermutation_apply(p_prev, grid))

C9_Witness ==
  /\ p_op = "compose"
  /\ p_other.locs.transpose
  /\ ~p_prev.locs.transpose
  /\ p_prev # GridPermutation_identity
  /\ GridPermutation_apply(p_perm, p_grid)
       = GridPermutation_apply(p_other, GridPermutation_apply(p_prev, p_grid))

\* Claim C10: a permutation composed with its inverse, on either side, is
\* the identity; the inverse of the inverse is the permutation; and the
\* identity leaves every grid as it is.
C10_InverseAndIdentity ==
  p_pc = "run" =>
    /\ GridPermutation_composed_with(p_perm, GridPermutation_inverse(p_perm))
         = GridPermutation_identity
    /\ GridPermutation_composed_with(GridPermutation_inverse(p_perm), p_perm)
         = GridPermutation_identity
    /\ GridPermutation_inverse(GridPermutation_inverse(p_perm)) = p_perm
    /\ \A grid \in ComparedGrids : GridPermutation_apply(GridPermutation_identity, grid) = grid

C10_Witness ==
  /\ p_op = "invert"
  /\ p_prev.locs.transpose
  /\ p_perm # p_prev
  /\ GridPermutation_composed_with(p_prev, p_perm) = GridPermutation_identity
  /\ GridPermutation_inverse(p_perm) = p_prev

\* ----------------------------------------- what `minimizing` returns (claims)

MinDone == m_pc = "done"

\* Some LocPermutations of the group: those that reorder the column-bands,
\* the columns of the second column-band and the rows of the third row-band.
OtherLocs ==
  {[LocPermutation_identity EXCEPT !.col_bands = BAND_PERMS[b], !.cols_in_bands[2] = LINE_PERMS[c],
                                   !.rows_in_bands[3] = LINE_PERMS[r]] :
     b \in 1..3, c \in 1..6, r \in 1..6}

\* The GridPermutation with these locs whose image of the grid has 1
\* through 9 in its first row.
relabelled(locs, grid) ==
  [nums |-> nums_of(grid, LocPermutation_inverse(locs)), locs |-> locs]

\* Claim C7: minimizing returns (p, m, _) with p.apply(g) = m, and m is not
\* greater than the image of g under any GridPermutation; here under the
\* relabelled OtherLocs.
C7_MinimizingIsLeast ==
  MinDone =>
    /\ GridPermutation_apply(m_best.perm, m_grid) = m_best.min
    /\ \A locs \in OtherLocs :
         Grid_cmp(m_best.min, GridPermutation_apply(relabelled(locs, m_grid), m_grid))
           # "Greater"

\* ------------------------------------------------- Grid to string and back

\* The grids of one numeral in one square.
OneClue == {[Grid_new EXCEPT ![loc] = num] : loc \in {0, 40, 80}, num \in Nums}

\* The grids formatted: blank, full, partial, and broken ones.
StrGrids == Puzzles \cup OneClue \cup {Grid_new, SolvedBase, SolvedOther, BrokenBase}

\* Texts that no grid formats into: of 80 and of 82 location characters.
TooShort == SubSeq(Grid_to_string(SolvedBase), 1, 80)

TooLong == Grid_to_string(SolvedBase) \o <<"0">>

InitStr ==
  /\ SolveIdle
  /\ GenIdle
  /\ RestIdleBut("str")
  /\ s_pc = "grid"
  /\ s_grid \in StrGrids
  /\ s_form = "Display"
  /\ s_text = <<>>
  /\ s_result = [ok |-> FALSE]

\* `grid.to_string()`
GridToString ==
  /\ s_pc = "grid"
  /\ s_pc' = "text"
  /\ s_form' = "Display"
  /\ s_text' = Grid_to_string(s_grid)
  /\ UNCHANGED <<s_grid, s_result>>
  /\ UNCHANGED not_str_vars

\* `format!("{:?}", grid)`
GridToDebug ==
  /\ s_pc = "grid"
  /\ s_pc' = "text"
  /\ s_form' = "Debug"
  /\ s_text' = Grid_debug(s_grid)
  /\ UNCHANGED <<s_grid, s_result>>
  /\ UNCHANGED not_str_vars

\* `Grid::from_str(&text)` of a formatted grid.
GridFromStr ==
  /\ s_pc = "text"
  /\ s_pc' = "parsed"
  /\ s_result' = Grid_from_str(s_text)
  /\ UNCHANGED <<s_grid, s_form, s_text>>
  /\ UNCHANGED not_str_vars

\* `Grid::from_str` of a text with too few or too many locations.
GridFromOtherStr ==
  /\ s_pc = "grid"
  /\ s_grid = SolvedBase
  /\ \E text \in {TooShort, TooLong} :
       /\ s_text' = text
       /\ s_result' = Grid_from_str(text)
  /\ s_pc' = "rejected"
  /\ UNCHANGED <<s_grid, s_form>>
  /\ UNCHANGED not_str_vars

NextStr == GridToString \/ GridToDebug \/ GridFromStr \/ GridFromOtherStr

SpecStr == InitStr /\ [][NextStr]_vars

\* C11: parsing the Display form or the Debug form of any grid with
\* Grid::from_str gives back Ok of the very grid that was formatted.
C11_FromStrRoundTrips ==
  s_pc = "parsed" => s_result = [ok |-> TRUE, grid |-> s_grid]

\* A partly filled grid has come back from its Ascii art.
C11_Witness ==
  /\ s_pc = "parsed"
  /\ s_form = "Debug"
  /\ Len(s_text) > 81
  /\ Grid_len(s_grid) \in 1..80
  /\ s_result = [ok |-> TRUE, grid |-> s_grid]

\* ---------------------------------------------------- FactFinder at work

\* The grid of test_find_overlaps and test_collector.
CollectorGrid ==
  Grid_of(<< 0,0,2, 6,0,0, 0,0,0,   1,6,0, 0,5,0, 9,0,0,   5,0,3, 4,0,0, 0,0,0,
             4,0,0, 0,0,0, 0,0,3,   0,0,0, 7,0,0, 0,2,0,   9,0,0, 0,0,0, 5,0,8,
             0,0,0, 0,0,4, 1,0,0,   6,0,0, 2,0,0, 0,5,0,   0,0,0, 1,0,6, 8,0,0 >>)

\* The grid of test_find_errors and test_collector_errors.
ErrorsGrid ==
  Grid_of(<< 0,0,0, 8,0,9, 0,0,6,   1,2,3, 0,0,0, 0,0,0,   0,0,0, 6,0,8, 0,0,0,
             7,0,0, 0,0,1, 0,0,2,   0,0,0, 4,5,0, 0,0,9,   0,0,0, 0,0,0, 6,0,0,
             0,0,0, 0,7,0, 0,0,0,   0,0,1, 0,4,6, 0,0,0,   0,0,3, 0,0,0, 0,0,0 >>)

\* A grid with no error in it.
HiddenPairGrid ==
  Grid_of(<< 0,0,4, 0,0,0, 9,1,2,   6,7,2, 0,0,5, 3,0,0,   1,9,0, 3,4,0, 5,6,7,
             0,0,9, 7,0,0, 0,2,3,   4,0,0, 0,0,0, 0,0,1,   0,0,3, 0,0,0, 0,5,0,
             0,0,0, 5,0,0, 0,0,0,   0,0,0, 0,0,0, 0,3,0,   0,4,0, 0,0,0, 0,7,0 >>)

DeduceGrids == {CollectorGrid, ErrorsGrid, HiddenPairGrid}

\* How many facts are applied to one FactFinder.
MaxApplied == 1

\* The facts of a deduction that are applied: the first MaxFact of them.
MaxFact == 5

InitDeduce ==
  /\ SolveIdle
  /\ GenIdle
  /\ RestIdleBut("deduce")
  /\ d_pc = "ready"
  /\ \E grid \in DeduceGrids : d_finder = FactFinder_new(grid)
  /\ d_collector = NoCollector
  /\ d_locals = collect_locals(NoCollector)
  /\ d_applied = 0

\* FactFinder::deduce, up to the loop of Collector::collect.
Deduce ==
  /\ d_pc = "ready"
  /\ d_pc' = "errors"
  /\ d_collector' =
       Collector_new(d_finder.remaining_asgmts, d_finder.actual_asgmts, d_finder.sukaku_map)
  /\ d_locals' = collect_locals(d_collector')
  /\ UNCHANGED <<d_finder, d_applied>>
  /\ UNCHANGED not_deduce_vars

\* collect's loop: `start`, and find_errors when the map has an error.
FindErrors ==
  /\ d_pc = "errors"
  /\ d_pc' = "overlaps"
  /\ d_locals' = [d_locals EXCEPT !.start = Len(d_collector.facts)]
  /\ d_collector' =
       IF d_collector.sukaku_map.has_error THEN find_errors(d_collector) ELSE d_collector
  /\ UNCHANGED <<d_finder, d_applied>>
  /\ UNCHANGED not_deduce_vars

\* collect's loop: `eliminations_start` and find_overlaps.
FindOverlaps ==
  /\ d_pc = "overlaps"
  /\ d_pc' = "locked_sets"
  /\ d_locals' = [d_locals EXCEPT !.eliminations_start = Len(d_collector.facts)]
  /\ d_collector' = find_overlaps(d_collector)
  /\ UNCHANGED <<d_finder, d_applied>>
  /\ UNCHANGED not_deduce_vars

\* collect's loop: find_locked_sets and `eliminations_end`.
FindLockedSets ==
  /\ d_pc = "locked_sets"
  /\ d_pc' = "hidden_singles"
  /\ d_collector' = find_locked_sets(d_collector)
  /\ d_locals' = [d_locals EXCEPT !.eliminations_end = Len(d_collector'.facts)]
  /\ UNCHANGED <<d_finder, d_applied>>
  /\ UNCHANGED not_deduce_vars

\* collect's loop: find_hidden_singles.
FindHiddenSingles ==
  /\ d_pc = "hidden_singles"
  /\ d_pc' = "naked_singles"
  /\ d_collector' = find_hidden_singles(d_collector)
  /\ UNCHANGED <<d_finder, d_locals, d_applied>>
  /\ UNCHANGED not_deduce_vars

\* collect's loop: find_naked_singles and `eliminations`.
FindNakedSingles ==
  /\ d_pc = "naked_singles"
  /\ d_pc' = "wrap"
  /\ d_collector' = find_naked_singles(d_collector)
  /\ d_locals' =
       [d_locals EXCEPT
          !.eliminations =
            eliminations_of(d_collector.facts, d_locals.eliminations_start,
                            d_locals.eliminations_end)]
  /\ UNCHANGED <<d_finder, d_applied>>
  /\ UNCHANGED not_deduce_vars

\* collect's loop: the turn's facts made implications, and the way out of
\* the loop, where deduce returns the collector's facts.
WrapFacts ==
  /\ d_pc = "wrap"
  /\ d_pc' = IF d_locals.eliminations_start = d_locals.eliminations_end
             THEN "deduced" ELSE "eliminate"
  /\ d_collector' = [d_collector EXCEPT !.facts = wrapped(@, d_locals)]
  /\ UNCHANGED <<d_finder, d_locals, d_applied>>
  /\ UNCHANGED not_deduce_vars

\* collect's loop: the end of a turn that found eliminations.
Eliminate ==
  /\ d_pc = "eliminate"
  /\ d_pc' = "errors"
  /\ d_locals' =
       [d_locals EXCEPT
          !.antecedents =
            SubSeq(d_collector.facts, d_locals.eliminations_start + 1,
                   d_locals.eliminations_end),
          !.antecedent_eliminations = d_locals.eliminations,
          !.remaining_asgmts = d_collector.remaining_asgmts,
          !.sukaku_map = d_collector.sukaku_map]
  /\ d_collector' =
       eliminated(d_collector,
                  or_all(d_locals.eliminations, Len(d_locals.eliminations), AsgmtSet_new))
  /\ UNCHANGED <<d_finder, d_applied>>
  /\ UNCHANGED not_deduce_vars

\* FactFinder::apply_fact of one of the facts deduced.
ApplyFact ==
  /\ d_pc = "deduced"
  /\ d_applied < MaxApplied
  /\ \E i \in 1..Min({Len(d_collector.facts), MaxFact}) :
       d_finder' = apply_fact(d_finder, d_collector.facts[i])
  /\ d_pc' = "ready"
  /\ d_applied' = d_applied + 1
  /\ UNCHANGED <<d_collector, d_locals>>
  /\ UNCHANGED not_deduce_vars

NextDeduce ==
  \/ Deduce
  \/ FindErrors
  \/ FindOverlaps
  \/ FindLockedSets
  \/ FindHiddenSingles
  \/ FindNakedSingles
  \/ WrapFacts
  \/ Eliminate
  \/ ApplyFact

SpecDeduce == InitDeduce /\ [][NextDeduce]_vars

\* Whether every implication in `fact`, at every nesting level, has an
\* antecedent.
RECURSIVE has_antecedents(_)
has_antecedents(fact) ==
  fact.kind = "Implication" =>
    /\ fact.antecedents # <<>>
    /\ \A i \in 1..Len(fact.antecedents) : has_antecedents(fact.antecedents[i])
    /\ has_antecedents(fact.consequent)

candidates(finder, num) == num_locs(finder.remaining_asgmts, num)

\* C13: for every Overlap fact deduce returns, the numeral's candidates in
\* `unit` all lie in `cross_unit`, and apply_fact clears the numeral from
\* the rest of `cross_unit`, removing at least one candidate.
C13_OverlapEliminates ==
  d_pc = "deduced" =>
    \A i \in 1..Len(d_collector.facts) :
      LET fact == d_collector.facts[i]
          applied == apply_fact(d_finder, fact)
      IN fact.kind = "Overlap" =>
           /\ LocSet_subset(Bits3x27_and(candidates(d_finder, fact.num), Unit_locs(fact.unit)),
                            Unit_locs(fact.cross_unit))
           /\ LocSet_is_empty(
                Bits3x27_and(candidates(applied, fact.num),
                             LocSet_minus(Unit_locs(fact.cross_unit), Unit_locs(fact.unit))))
           /\ candidates(applied, fact.num) # candidates(d_finder, fact.num)

\* ------------------------------------------------------- complexity of facts

\* Facts that are not implications: assignments, errors, overlaps and
\* locked sets hidden and naked, in a block and in a line, of two to four
\* numerals.
PlainFacts ==
  {SingleLoc(1, Row_unit(0), 2), SingleLoc(2, Blk_unit(0), 2), SingleNum(2, 1),
   SpeculativeAssignment(2, 2), NoLoc(1, Col_unit(2)), NoNum(2),
   Conflict(1, Row_unit(0), LocSet_of({0, 1})),
   Overlap(1, Blk_unit(0), Row_unit(0)), Overlap(2, Row_unit(0), Blk_unit(0)),
   LockedSet({1, 2}, Blk_unit(0), LocSet_of({0, 1}), <<Row_unit(0)>>, FALSE),
   LockedSet({1, 2, 3}, Row_unit(0), LocSet_of({0, 1, 2}), <<Blk_unit(0)>>, FALSE),
   LockedSet({1, 2}, Blk_unit(0), LocSet_of({0, 1}), <<>>, TRUE),
   LockedSet({1, 2, 3, 4}, Blk_unit(0), LocSet_of({0, 1, 2, 9}), <<>>, FALSE)}

\* How many antecedents the implications rated have at most.
MaxAntecedents == 2

\* The lists of at most MaxAntecedents of `facts`.
AntecedentLists(facts) ==
  UNION {[1..n -> facts] : n \in 0..MaxAntecedents}

\* Implications of plain facts.
PlainImplications ==
  {Implication(antecedents, consequent) :
     antecedents \in AntecedentLists(PlainFacts), consequent \in PlainFacts}

\* Implications whose one antecedent or whose consequent is an implication
\* of one plain fact.
NestedImplications ==
  LET inner == {Implication(<<a>>, c) : a \in PlainFacts, c \in PlainFacts}
  IN {Implication(<<a>>, c) : a \in inner, c \in PlainFacts} \cup
     {Implication(<<a>>, c) : a \in PlainFacts, c \in inner}

RatedFacts == PlainFacts \cup PlainImplications \cup NestedImplications

InitRate ==
  /\ SolveIdle
  /\ GenIdle
  /\ RestIdleBut("call")
  /\ c_pc = "called"
  /\ c_fn = "complexity"
  /\ c_arg \in RatedFacts
  /\ c_result = <<>>

\* Fact::complexity of the fact.
Complexity ==
  /\ c_pc = "called"
  /\ c_fn = "complexity"
  /\ c_pc' = "returned"
  /\ c_result' = Fact_complexity(c_arg)
  /\ UNCHANGED <<c_fn, c_arg>>
  /\ UNCHANGED not_call_vars

NextRate == Complexity

SpecRate == InitRate /\ [][NextRate]_vars

\* The facts that are not implications inside a fact, at every level.
RECURSIVE leaves(_)
leaves(fact) ==
  IF fact.kind # "Implication" THEN {fact}
  ELSE leaves(fact.consequent) \cup
       UNION {leaves(fact.antecedents[i]) : i \in 1..Len(fact.antecedents)}

\* The numerals that the assignments, overlaps and locked sets inside a
\* fact are about.
numerals(fact) ==
  UNION {IF leaf.kind = "LockedSet" THEN leaf.nums
         ELSE IF leaf.kind \in {"NoLoc", "NoNum", "Conflict"} THEN {}
         ELSE {leaf.num} : leaf \in leaves(fact)}

\* The rule of the single locked set for antecedent.
single_locked_set(fact) ==
  /\ Len(fact.antecedents) = 1
  /\ fact.antecedents[1].kind = "LockedSet"
  /\ fact.consequent.kind # "Implication"

\* A locked set is Moderate when hidden, in a block and of at most three
\* numerals.
moderate_set(set) == ~set.is_naked /\ set.unit \in 18..26 /\ Cardinality(set.nums) <= 3

\* C14, as the code has it: an Implication is Moderate when its consequent
\* and its antecedents, at every level, are about one numeral between
\* them; failing that, one with a single locked set for antecedent and a
\* consequent that is no Implication is rated as that locked set; every
\* other Implication is Complex.
C14_ImplicationComplexity ==
  (c_pc = "returned" /\ c_fn = "complexity" /\ c_arg.kind = "Implication") =>
    c_result =
      IF Cardinality(numerals(c_arg)) = 1 THEN "Moderate"
      ELSE IF single_locked_set(c_arg) /\ moderate_set(c_arg.antecedents[1]) THEN "Moderate"
      ELSE "Complex"

\* An Implication of two antecedents about other numerals than its
\* consequent's one has been rated.
C14_Witness ==
  /\ c_pc = "returned"
  /\ c_fn = "complexity"
  /\ c_arg.kind = "Implication"
  /\ Len(c_arg.antecedents) = 2
  /\ Cardinality(numerals(c_arg.consequent)) = 1
  /\ Cardinality(numerals(c_arg)) > 1
  /\ c_result = "Complex"

\* C14, as stated: an Implication whose consequent is about one numeral and
\* that is not under the rule of the single locked set is Moderate whatever
\* its antecedents are about, and every other Implication is Complex.
C14_ConsequentNumeralModerate ==
  (c_pc = "returned" /\ c_fn = "complexity" /\ c_arg.kind = "Implication") =>
    c_result =
      IF Cardinality(numerals(c_arg.consequent)) = 1 /\ ~single_locked_set(c_arg)
      THEN "Moderate" ELSE "Complex"

\* --------------------------------------- what improve_puzzle leaves to remove

\* improve_puzzle is about to return its summary.
ImproveDone == g_pc = "orbit" /\ g_orbits = <<>>

\* The orbits of the pass's symmetry that hold a clue of the grid.
ClueOrbits(sym_, grid) ==
  {i \in 1..Len(Sym_orbits(sym_)) : \E loc \in Sym_orbits(sym_)[i] : grid[loc] # 0}

\* A caller of improve_puzzle blanks one orbit that still holds a clue in
\* the grid returned, and calls solve as improve_puzzle called it.
Probe ==
  /\ ImproveDone
  /\ \E i \in ClueOrbits(g_pass_sym, g_summary.clues) :
       /\ g_orbits' = <<Sym_orbits(g_pass_sym)[i]>>
       /\ call_solve(Blank(g_summary.clues, Sym_orbits(g_pass_sym)[i]),
                     limits(g_improper).solutions)
  /\ g_pc' = "probe"
  /\ UNCHANGED <<g_random, g_solution, g_sym, g_broken, g_improper, g_pass_sym, g_ledger,
                 g_answer, g_clues, g_summary>>
  /\ UNCHANGED rest_vars

\* That solve has returned.
Probed ==
  /\ g_pc = "probe"
  /\ pc = "done"
  /\ g_pc' = "probed"
  /\ UNCHANGED <<g_random, g_solution, g_sym, g_broken, g_improper, g_pass_sym, g_orbits,
                 g_ledger, g_answer, g_clues, g_summary>>
  /\ UNCHANGED not_gen_vars

NextImprove == NextGen \/ Probe \/ Probed

SpecImprove == InitGen /\ [][NextImprove]_vars

\* The locations where two of the solutions that solve returned differ.
Holes == {loc \in Locs : \E a \in Returned, b \in Returned : a[loc] # b[loc]}

\* C15: the grid improve_puzzle returns is minimal under the removal of an
\* orbit: without any one orbit of sym that still holds a clue, it has more
\* than max_solutions solutions or more than max_holes holes.
C15_ImprovedIsMinimal ==
  g_pc = "probed" =>
    \/ Len(summary.solutions) > limits(g_improper).solutions
    \/ Cardinality(Holes) > limits(g_improper).holes

\* An orbit of four clues has been taken from a grid that improve_puzzle
\* returned, and left too many solutions.
C15_Witness ==
  /\ g_pc = "probed"
  /\ Cardinality(g_orbits[1]) = 4
  /\ \A loc \in g_orbits[1] : g_summary.clues[loc] # 0 /\ clues[loc] = 0
  /\ Len(summary.solutions) > limits(g_improper).solutions

\* ------------------------------------------------ the orbits of gen's clues

\* Every orbit of the symmetry is all clues or holds none.
WholeOrbits(sym_, grid) ==
  \A i \in 1..Len(Sym_orbits(sym_)) :
    \/ \A loc \in Sym_orbits(sym_)[i] : grid[loc] # 0
    \/ \A loc \in Sym_orbits(sym_)[i] : grid[loc] = 0

\* C16: when broken is false or sym is Sym::None, the clues gen_puzzle
\* returns fill whole orbits of sym, and sym.evaluate of them counts no
\* nonconforming location; so do the clues of the first improve_puzzle
\* pass of a broken symmetry, the second pass alone leaving orbits partly
\* filled.
C16_CluesFillOrbits ==
  ((GenDone \/ ImproveDone) /\ g_pass_sym = g_sym) =>
    /\ WholeOrbits(g_sym, g_summary.clues)
    /\ Sym_evaluate(g_sym, g_summary.clues).num_nonconforming_locs = 0
    /\ Sym_evaluate(g_sym, g_summary.clues).partial_orbits = <<>>

\* gen_puzzle has returned clues of Rotation90, not broken, that fill
\* orbits of four locations and leave others empty.
C16_Witness ==
  /\ GenDone
  /\ ~g_broken
  /\ g_sym = "Rotation90"
  /\ \E i \in 1..Len(Sym_orbits(g_sym)) :
       /\ Cardinality(Sym_orbits(g_sym)[i]) = 4
       /\ \A loc \in Sym_orbits(g_sym)[i] : g_summary.clues[loc] # 0
  /\ Len(Sym_evaluate(g_sym, g_summary.clues).full_orbits) < Len(Sym_orbits(g_sym))
  /\ Sym_evaluate(g_sym, g_summary.clues).num_nonconforming_locs = 0

\* ------------------------------------------------- comparing symmetries

InitOrder ==
  /\ SolveIdle
  /\ GenIdle
  /\ RestIdleBut("call")
  /\ c_pc = "called"
  /\ c_fn = "partial_cmp"
  /\ c_arg \in Syms \X Syms
  /\ c_result = <<>>

\* Sym::partial_cmp of the two symmetries.
PartialCmp ==
  /\ c_pc = "called"
  /\ c_fn = "partial_cmp"
  /\ c_pc' = "returned"
  /\ c_result' = Sym_partial_cmp(c_arg[1], c_arg[2])
  /\ UNCHANGED <<c_fn, c_arg>>
  /\ UNCHANGED not_call_vars

NextOrder == PartialCmp

SpecOrder == InitOrder /\ [][NextOrder]_vars

\* The orbit, among the orbits, that holds the location.
loc_orbit(orbits, loc) == CHOOSE orbit \in {orbits[i] : i \in 1..Len(orbits)} : loc \in orbit

\* Every location's orbit among the first orbits lies within its orbit among
\* the second.
within(orbits1, orbits2) ==
  \A loc \in Locs : loc_orbit(orbits1, loc) \subseteq loc_orbit(orbits2, loc)

orbits_within(s1, s2) == within(Sym_orbits(s1), Sym_orbits(s2))

\* C17: two distinct symmetries compare Less exactly when every location's
\* orbit under the first is a subset of its orbit under the second, Greater
\* exactly when the reverse holds, and incomparable when neither holds; only
\* a symmetry and itself compare Equal.
C17_OrderIsOrbitInclusion ==
  (c_pc = "returned" /\ c_fn = "partial_cmp") =>
    /\ (c_result = "Equal") <=> (c_arg[1] = c_arg[2])
    /\ c_arg[1] # c_arg[2] =>
         /\ (c_result = "Less") <=> orbits_within(c_arg[1], c_arg[2])
         /\ (c_result = "Greater") <=> orbits_within(c_arg[2], c_arg[1])
         /\ (c_result = "None") <=>
              (~orbits_within(c_arg[1], c_arg[2]) /\ ~orbits_within(c_arg[2], c_arg[1]))

C17_Witness ==
  /\ c_pc = "returned"
  /\ c_fn = "partial_cmp"
  /\ c_arg = <<"BlockwiseMain", "Rotation180">>
  /\ c_result = "None"
  /\ ~orbits_within("BlockwiseMain", "Rotation180")
  /\ ~orbits_within("Rotation180", "BlockwiseMain")

\* --------------------------------------------------- matching symmetries

\* The clue_grid of a solved grid on the first orbits of a symmetry, in the
\* order of its orbits.
Pattern(sym_, orbit_count) ==
  Blank(SolvedBase, Locs \ UNION {Sym_orbits(sym_)[i] : i \in 1..orbit_count})

\* The grid without its first clue.
Dented(grid) == Blank(grid, {Min({loc \in Locs : grid[loc] # 0})})

SmallPattern == 3

LargePattern == 7

MatchGrids ==
  {Pattern(sym_, orbit_count) : sym_ \in Syms, orbit_count \in {SmallPattern, LargePattern}}
    \cup {Dented(Pattern(sym_, LargePattern)) : sym_ \in Syms}
    \cup {Grid_new, SolvedBase}

MaxNonconforming == {0, 1, 4, 81}

InitMatch ==
  /\ SolveIdle
  /\ GenIdle
  /\ RestIdleBut("call")
  /\ c_pc = "called"
  /\ c_fn = "best_matches"
  /\ c_arg \in MatchGrids \X MaxNonconforming
  /\ c_result = <<>>

\* Sym::best_matches of the clue_grid and the bound.
BestMatches ==
  /\ c_pc = "called"
  /\ c_fn = "best_matches"
  /\ c_pc' = "returned"
  /\ c_result' = best_matches(c_arg[1], c_arg[2])
  /\ UNCHANGED <<c_fn, c_arg>>
  /\ UNCHANGED not_call_vars

NextMatch == BestMatches

SpecMatch == InitMatch /\ [][NextMatch]_vars

returned_syms(result) == {result[i].sym : i \in 1..Len(result)}

nonconforming(sym_, clue_grid) == Sym_evaluate(sym_, clue_grid).num_nonconforming_locs

\* A returned greater symmetry that keeps out the symmetry of the given
\* nonconforming count.
outdone(sym_, nonconforming_locs, result) ==
  \E i \in 1..Len(result) :
    /\ Sym_partial_cmp(result[i].sym, sym_) = "Greater"
    /\ \/ nonconforming_locs # 0
       \/ result[i].m.num_nonconforming_locs = 0
       \/ sym_ = "None"

\* The symmetry is within the bound and not kept out.
belongs(sym_, nonconforming_locs, result, bound) ==
  nonconforming_locs <= bound /\ ~outdone(sym_, nonconforming_locs, result)

\* C18: best_matches returns, in ascending order of nonconforming orbit_count,
\* exactly the symmetries within the bound that no returned greater symmetry
\* keeps out (a greater symmetry keeps out a non-complete symmetry, a complete
\* one if it is complete itself, and Sym::None always), each once and with
\* its match.
C18_BestMatches ==
  (c_pc = "returned" /\ c_fn = "best_matches") =>
    /\ \A i \in 1..Len(c_result), j \in 1..Len(c_result) :
         /\ i < j => c_result[i].m.num_nonconforming_locs <= c_result[j].m.num_nonconforming_locs
         /\ i # j => c_result[i].sym # c_result[j].sym
    /\ \A i \in 1..Len(c_result) : c_result[i].m = Sym_evaluate(c_result[i].sym, c_arg[1])
    /\ returned_syms(c_result) =
         {sym_ \in Syms : belongs(sym_, nonconforming(sym_, c_arg[1]), c_result, c_arg[2])}

C18_Witness ==
  /\ c_pc = "returned"
  /\ c_fn = "best_matches"
  /\ Len(c_result) >= 3
  /\ c_result[1].m.num_nonconforming_locs < c_result[Len(c_result)].m.num_nonconforming_locs
  /\ \E sym_ \in Syms \ returned_syms(c_result) :
       /\ sym_ # "None"
       /\ nonconforming(sym_, c_arg[1]) <= c_arg[2]
       /\ outdone(sym_, nonconforming(sym_, c_arg[1]), c_result)

\* ------------------------------------------- AsgmtSet from and to a grid

\* The grid of asgmt.rs's to_grid test.
ToGridTest == Grid_of(<<
  0, 1, 0, 0, 5, 0, 0, 8, 0,
  4, 0, 8, 9, 0, 6, 2, 0, 1,
  0, 0, 6, 0, 0, 0, 7, 0, 0,
  0, 0, 5, 0, 3, 0, 9, 0, 0,
  0, 0, 0, 8, 0, 7, 0, 0, 0,
  0, 0, 1, 0, 4, 0, 3, 0, 0,
  0, 0, 4, 0, 0, 0, 1, 0, 0,
  2, 0, 9, 3, 0, 1, 6, 0, 7,
  0, 7, 0, 0, 6, 0, 0, 2, 0 >>)

\* A valid grid whose location L19 has no numeral left.
NoNumeralLeft ==
  [loc \in Locs |-> IF loc < 8 THEN loc + 1 ELSE IF loc = Loc_at(3, 8) THEN 9 ELSE 0]

ConvertedGrids == StrGrids \cup MatchGrids \cup {ToGridTest, NoNumeralLeft}

InitConvert ==
  /\ SolveIdle
  /\ GenIdle
  /\ RestIdleBut("call")
  /\ c_pc = "called"
  /\ c_fn = "from_grid"
  /\ c_arg \in ConvertedGrids
  /\ c_result = <<>>

\* AsgmtSet::from_grid of the grid.
FromGrid ==
  /\ c_pc = "called"
  /\ c_fn = "from_grid"
  /\ c_pc' = "returned"
  /\ c_result' = AsgmtSet_from_grid(c_arg)
  /\ UNCHANGED <<c_fn, c_arg>>
  /\ UNCHANGED not_call_vars

\* AsgmtSet::to_grid of the set from_grid has returned.
ToGrid ==
  /\ c_pc = "returned"
  /\ c_fn = "from_grid"
  /\ c_result.ok
  /\ c_fn' = "to_grid"
  /\ c_result' = [set |-> c_result.asgmts, to_grid |-> AsgmtSet_to_grid(c_result.asgmts)]
  /\ UNCHANGED <<c_pc, c_arg>>
  /\ UNCHANGED not_call_vars

NextConvert == FromGrid \/ ToGrid

SpecConvert == InitConvert /\ [][NextConvert]_vars

\* The numerals the set has left at the location.
remaining_nums(asgmts, loc) == {n \in Nums : AsgmtSet_contains(asgmts, n, loc)}

\* C20: when from_grid of a grid and to_grid of its result both succeed,
\* the grid returned has the given grid's numeral at every location the given
\* grid sets, and at every other location it fills the set has exactly one
\* numeral left, the one filled in.
C20_ToGridExtendsGrid ==
  (c_pc = "returned" /\ c_fn = "to_grid" /\ c_result.to_grid.ok) =>
    \A loc \in Locs :
      /\ c_arg[loc] # 0 => c_result.to_grid.grid[loc] = c_arg[loc]
      /\ (c_arg[loc] = 0 /\ c_result.to_grid.grid[loc] # 0) =>
           remaining_nums(c_result.set, loc) = {c_result.to_grid.grid[loc]}

C20_Witness ==
  /\ c_pc = "returned"
  /\ c_fn = "to_grid"
  /\ c_result.to_grid.ok
  /\ c_arg = ToGridTest
  /\ c_result.to_grid.grid[Loc_at(0, 6)] = 4
  /\ \E loc \in Locs : c_arg[loc] = 0 /\ c_result.to_grid.grid[loc] = 0

\* ------------------------------------------ counting the minimizing perms

\* The permutations of 0..2.
BlkLinePerms == {p \in [0..2 -> 0..2] : \A i, j \in 0..2 : p[i] = p[j] => i = j}

\* The permutations of the nine lines that a LocPermutation can make: the
\* bands permuted, and the lines permuted within each band.
LinePerms ==
  {[line \in 0..8 |-> 3 * bands[line \div 3] + lines[line \div 3][line % 3]] :
     bands \in BlkLinePerms, lines \in [0..2 -> BlkLinePerms]}

Grid_transposed(grid) == [loc \in Locs |-> grid[Loc_t(loc)]]

\* The row `row` of `grid`, its columns taken in the order `cols` and its
\* numerals replaced as `nums` says, is the row `min_row` of `min`.
row_carried(grid, cols, nums, row, min, min_row) ==
  \A col \in 0..8 : nums[grid[Loc_at(row, cols[col])]] = min[Loc_at(min_row, col)]

\* The replacement of numerals that carries the row `row` of `grid`, its
\* columns in the order `cols`, to the first row of `min`.
nums_carrying(grid, cols, row, min) ==
  [num \in Nums |-> min[Loc_at(0, CHOOSE col \in 0..8 : grid[Loc_at(row, cols[col])] = num)]]

\* The row of `grid` that is carried to the row `min_row` of `min`, or 9.
row_carried_to(grid, cols, nums, min, min_row) ==
  IF \E row \in 0..8 : row_carried(grid, cols, nums, row, min, min_row)
  THEN CHOOSE row \in 0..8 : row_carried(grid, cols, nums, row, min, min_row)
  ELSE 9

\* The rows carried to the rows of `min` make a permutation of rows that
\* keeps the bands together.
rows_carried(grid, cols, nums, min) ==
  /\ \A min_row \in 0..8 : row_carried_to(grid, cols, nums, min, min_row) < 9
  /\ \A row1, row2 \in 0..8 :
       (row1 \div 3 = row2 \div 3) <=>
         (row_carried_to(grid, cols, nums, min, row1) \div 3 =
            row_carried_to(grid, cols, nums, min, row2) \div 3)

\* Some GridPermutation with these columns, carrying this row to the first,
\* takes `grid` to `min`.  There is at most one: the first row fixes the
\* numerals, and the rows of a solved grid differ, which fixes the rows.
is_carried(grid, cols, first, min) ==
  rows_carried(grid, cols, nums_carrying(grid, cols, first, min), min)

\* The number of GridPermutations p with p.apply(grid) = min: each is a
\* transposition or none, a permutation of columns, a permutation of rows and
\* a permutation of numerals.
num_minimizing(grid, min) ==
  Cardinality({x \in {FALSE, TRUE} \X LinePerms \X (0..8) :
                 is_carried(IF x[1] THEN Grid_transposed(grid) ELSE grid, x[2], x[3], min)})

\* C19: the count that `minimizing` returns is the number of distinct
\* GridPermutations that take the grid to the minimal grid returned.
C19_CountsMinimizing == MinDone => m_best.num_total = num_minimizing(m_grid, m_best.min)

C19_Witness ==
  /\ MinDone
  /\ m_grid = symmetric_grid
  /\ m_best.num_total > 1
  /\ m_best.num_total = num_minimizing(m_grid, m_best.min)

\* -------------------------------------------------- singles and doubles

\* The set of asgmt.rs's singles_and_doubles test: the grid's numeral at
\* every location it sets, 1 and 2 at every other location.
PairedSet(grid) ==
  Array([n \in Nums |->
           LocSet_of({loc \in Locs : grid[loc] = n \/ (grid[loc] = 0 /\ n \in {1, 2})})])

AsgmtSet_insert(asgmts, num, loc) ==
  [asgmts EXCEPT ![num] = Bits3x27_or(@, LocSet_singleton(loc))]

AsgmtSet_remove(asgmts, num, loc) ==
  [asgmts EXCEPT ![num] = Bits3x27_and(@, Bits3x27_not(LocSet_singleton(loc)))]

\* The sets of the test, and the sets from_grid makes or has made when it
\* gives up, of each grid.
CountedSets ==
  {AsgmtSet_from_grid(grid).asgmts : grid \in ConvertedGrids}
    \cup {PairedSet(grid) : grid \in StrGrids \cup {ToGridTest}}
    \cup {AsgmtSet_insert(PairedSet(ToGridTest), 3, 0),
          AsgmtSet_remove(AsgmtSet_insert(PairedSet(ToGridTest), 3, 0), 1, 1),
          AsgmtSet_new, AsgmtSet_all}

InitCount ==
  /\ SolveIdle
  /\ GenIdle
  /\ RestIdleBut("call")
  /\ c_pc = "called"
  /\ c_fn = "singles_and_doubles"
  /\ c_arg \in CountedSets
  /\ c_result = <<>>

\* AsgmtSet::singles_and_doubles of the set.
SinglesAndDoubles ==
  /\ c_pc = "called"
  /\ c_fn = "singles_and_doubles"
  /\ c_pc' = "returned"
  /\ c_result' = singles_and_doubles(c_arg)
  /\ UNCHANGED <<c_fn, c_arg>>
  /\ UNCHANGED not_call_vars

NextCount == SinglesAndDoubles

SpecCount == InitCount /\ [][NextCount]_vars

\* The locations where the set has exactly `size` numerals left.
locs_with(asgmts, size) == {loc \in Locs : Cardinality(remaining_nums(asgmts, loc)) = size}

\* C30: singles_and_doubles returns Err(Invalid) exactly when some location
\* has no numeral left in the set, and otherwise the locations with exactly
\* one numeral left and the locations with exactly two.
C30_SinglesAndDoubles ==
  (c_pc = "returned" /\ c_fn = "singles_and_doubles") =>
    /\ ~c_result.ok <=> locs_with(c_arg, 0) # {}
    /\ c_result.ok =>
         /\ LocSet_items(c_result.singles) = locs_with(c_arg, 1)
         /\ LocSet_items(c_result.doubles) = locs_with(c_arg, 2)

C30_Witness ==
  /\ c_pc = "returned"
  /\ c_fn = "singles_and_doubles"
  /\ c_arg = AsgmtSet_insert(PairedSet(ToGridTest), 3, 0)
  /\ c_result.ok
  /\ ~LocSet_contains(c_result.singles, 0)
  /\ ~LocSet_contains(c_result.doubles, 0)
  /\ LocSet_len(c_result.singles) > 0
  /\ LocSet_len(c_result.doubles) > 0

C30_WitnessInvalid ==
  /\ c_pc = "returned"
  /\ c_fn = "singles_and_doubles"
  /\ c_arg = AsgmtSet_remove(AsgmtSet_insert(PairedSet(ToGridTest), 3, 0), 1, 1)
  /\ ~c_result.ok

\* ------------------------------------------------ the i-th bit of a set

\* Bit sets of every type: all the Bits3, and empty, full, one-bit and
\* scattered sets of the others, those of the integer and the wrapped types
\* first.
BitSets ==
  {[ty |-> "Bits3", bits |-> b] : b \in SUBSET (0..2)}
    \cup {[ty |-> "Bits9", bits |-> b] : b \in {{}, {0}, {8}, {3, 5}, {1, 2, 4, 8}, 0..8}}
    \cup {[ty |-> "Bits18", bits |-> b] : b \in {{}, {17}, {0, 9, 17}}}
    \cup {[ty |-> "Bits27", bits |-> b] : b \in {{}, {26}, {0, 13, 26}, 0..26}}
    \cup {[ty |-> "u8", bits |-> b] : b \in {{7}, {0, 3, 7}}}
    \cup {[ty |-> "u16", bits |-> b] : b \in {{15}, {0, 8, 15}}}
    \cup {[ty |-> "u32", bits |-> b] : b \in {{31}, {0, 16, 31}}}

LocBitSets ==
  {[ty |-> "Bits3x27", bits |-> b] :
            b \in {LocSet_new, LocSet_all, LocSet_singleton(80), LocSet_of({0, 27, 54, 80}),
                   LocSet_of({30, 31})}}

AsgmtBitSets ==
  {[ty |-> "Bits9x3x27", bits |-> b] :
            b \in {AsgmtSet_new, AsgmtSet_insert(AsgmtSet_new, 9, 80),
                   AsgmtSet_insert(AsgmtSet_insert(AsgmtSet_new, 2, 40), 5, 3),
                   PairedSet(ToGridTest)}}

\* How far below 0 and beyond len the indices go.
IndexMargin == 2

\* The indices asked of a set of `len` bits.
BitIndices(len) ==
  {i \in (0 - IndexMargin)..(len + IndexMargin) :
     i <= IndexMargin \/ i >= len - IndexMargin \/ i = len \div 2}

\* The calls on a bit set, in builds with and without debug assertions.
BitAtCalls(set) ==
  {[ty |-> set.ty, bits |-> set.bits, i |-> i, debug_assertions |-> debug_assertions] :
     i \in BitIndices(Bits_len(set.ty, set.bits)), debug_assertions \in BOOLEAN}

InitBitAt ==
  /\ SolveIdle
  /\ GenIdle
  /\ RestIdleBut("call")
  /\ c_pc = "called"
  /\ c_fn = "bit_at"
  /\ \/ \E set \in BitSets : c_arg \in BitAtCalls(set)
     \/ \E set \in LocBitSets : c_arg \in BitAtCalls(set)
     \/ \E set \in AsgmtBitSets : c_arg \in BitAtCalls(set)
  /\ c_result = <<>>

\* bit_at and value_at of the set and the index.
BitAt ==
  /\ c_pc = "called"
  /\ c_fn = "bit_at"
  /\ c_pc' = "returned"
  /\ c_result' =
       [bit_at |-> Bits_bit_at(c_arg.ty, c_arg.bits, c_arg.i, c_arg.debug_assertions),
        value_at |-> Bits_value_at(c_arg.ty, c_arg.bits, c_arg.i, c_arg.debug_assertions)]
  /\ UNCHANGED <<c_fn, c_arg>>
  /\ UNCHANGED not_call_vars

NextBitAt == BitAt

SpecBitAt == InitBitAt /\ [][NextBitAt]_vars

\* The values of the members of a bit set.
Bits_values(ty, bits) ==
  CASE ty = "Bits3x27" -> LocSet_items(bits)
    [] ty = "Bits9x3x27" -> UNION {Shl(LocSet_items(bits[n]), 81 * (n - 1)) : n \in Nums}
    [] OTHER -> bits

\* The set of the type with the one value.
Bits_singleton(ty, value) ==
  CASE ty = "Bits3x27" -> LocSet_singleton(value)
    [] ty = "Bits9x3x27" -> AsgmtSet_insert(AsgmtSet_new, (value \div 81) + 1, value % 81)
    [] OTHER -> {value}

\* The member with i members below it.
ith_smallest(values, i) == CHOOSE v \in values : Cardinality({w \in values : w < v}) = i

BitAtReturned == c_pc = "returned" /\ c_fn = "bit_at"

BitAtInRange == c_arg.i >= 0 /\ c_arg.i < Cardinality(Bits_values(c_arg.ty, c_arg.bits))

\* bit_at and value_at return the i-th smallest member when i is within
\* 0..len.
BitAtInRangeIsRight ==
  (BitAtReturned /\ BitAtInRange) =>
    /\ c_result.value_at = Bits_Some(ith_smallest(Bits_values(c_arg.ty, c_arg.bits), c_arg.i))
    /\ c_result.bit_at =
         Bits_Some(Bits_singleton(c_arg.ty,
                                  ith_smallest(Bits_values(c_arg.ty, c_arg.bits), c_arg.i)))

\* bit_at and value_at return None when i is len or more.
BitAtBeyondIsNone ==
  (BitAtReturned /\ c_arg.i >= Cardinality(Bits_values(c_arg.ty, c_arg.bits))) =>
    c_result.value_at = Bits_None /\ c_result.bit_at = Bits_None

\* C23: bit_at and value_at of a bit set of any type return the i-th
\* smallest member when 0 <= i < len, and None for every other i, negative i
\* and the empty set included.
C23_BitAt ==
  /\ BitAtInRangeIsRight
  /\ (BitAtReturned /\ ~BitAtInRange) =>
       c_result.value_at = Bits_None /\ c_result.bit_at = Bits_None


\* ------------------------------------------- the frames of Searcher::run

\* Every frame of the stack has a numeral that next_num has not returned.
frames_have_untried ==
  \A i \in 1..Len(searcher.stack) : searcher.stack[i].next < searcher.stack[i].count

\* One pass of the body of Searcher::run's loop.
run_step == pc = "run" /\ count' = count + 1

\* Numerals remain in the top frame after the one this pass tries.
numerals_remain == Top(searcher.stack).next + 1 < Top(searcher.stack).count

\* The pass left the top frame where it was, with its ledger as it was and
\* one numeral fewer to try: the assignment was made in a copy.
frame_copied ==
  /\ Len(searcher'.stack) >= Len(searcher.stack)
  /\ searcher'.stack[Len(searcher.stack)] =
       [Top(searcher.stack) EXCEPT !.next = @ + 1]

\* The pass popped the top frame, or made the assignment in its ledger.
frame_consumed ==
  \/ Len(searcher'.stack) < Len(searcher.stack)
  \/ /\ Len(searcher'.stack) = Len(searcher.stack)
     /\ searcher'.stack[Len(searcher.stack)].ledger # Top(searcher.stack).ledger
     /\ ~LocSet_contains(searcher'.stack[Len(searcher.stack)].ledger.unset,
                         Top(searcher.stack).pivot_loc)

copies_exactly_when_numerals_remain ==
  run_step => /\ frame_copied <=> numerals_remain
              /\ frame_consumed <=> ~numerals_remain

\* C28: between the steps of Searcher::run every frame of the stack has
\* next < count; a pass of the loop leaves the top frame's ledger as it was
\* (working in a copy) exactly when numerals remain after the one it tries,
\* and pops or re-pivots the frame exactly when it tries the frame's last.
C28_FramesCopiedOrConsumed ==
  [](frames_have_untried) /\ [][copies_exactly_when_numerals_remain]_vars

\* run has worked in a copy for the bottom frame and stands two frames deep.
C28_Witness ==
  /\ pc = "run"
  /\ count >= 1
  /\ Len(searcher.stack) >= 2
  /\ searcher.stack[1].next >= 1
  /\ Top(searcher.stack).next = 0


\* ------------------------------------------- the Ledger's calls step by step

\* The grid of test_ledger_no_pivots.
LedgerNoPivots == Grid_of(<<
  0,0,1,0,0,0,0,0,8,
  0,0,0,0,5,7,0,3,0,
  0,0,0,0,0,4,9,0,0,
  0,0,0,5,1,9,0,0,0,
  0,2,0,3,0,0,0,0,0,
  0,7,6,2,0,0,0,0,0,
  0,0,3,0,0,0,0,4,0,
  0,6,4,0,0,0,5,0,1,
  8,0,0,0,0,0,0,9,6>>)

\* The clues Ledger::new is called on.
LedgerGrids == Puzzles \cup {LedgerNoPivots, CollectorGrid, HiddenPairGrid, ToGridTest}

\* The assign_and_apply_implications calls made on one ledger.
MaxAssigned == 2

\* No call has returned yet, or the last one returned Err.
NoResult == [ok |-> FALSE]

\* A ledger at the beginning of apply_implications, or as a call that
\* returned Ok left it: i is the (numeral, band) pair that
\* eliminate_by_overlaps's for loops have come to, i = 3 * (num - 1) + band.
with_ledger(ledger, twos) ==
  [ok |-> TRUE, ledger |-> ledger, twos |-> twos, i |-> 0, keep_going |-> FALSE]

\* The machine keeps in c_arg the clues, what the call before the running
\* one returned and its name, and the number of assignments made; in
\* c_result the running call's ledger and the locals of
\* eliminate_by_overlaps's loops and, once c_pc is "returned", its result:
\* `ok` (Ok or Err) and the twos.
InitLedger ==
  /\ SolveIdle
  /\ GenIdle
  /\ RestIdleBut("call")
  /\ c_pc = "called"
  /\ c_fn = "new"
  /\ \E grid \in LedgerGrids : c_arg = [grid |-> grid, before |-> NoResult, last |-> "", assigned |-> 0]
  /\ c_result = NoResult

\* What a call that has left its ledger returns.
returned_from(r) == IF r.ok THEN with_ledger(r.ledger, LocSet_new) ELSE NoResult

LedgerNew ==
  /\ c_pc = "called"
  /\ c_result' = returned_from(Ledger_new(c_arg.grid))
  /\ c_pc' = "returned"
  /\ UNCHANGED <<c_fn, c_arg>>
  /\ UNCHANGED not_call_vars

\* apply_implications is called on the ledger the last call left.
CallApplyImplications ==
  /\ c_pc = "returned"
  /\ c_result.ok
  /\ c_fn' = "apply_implications"
  /\ c_arg' = [c_arg EXCEPT !.before = c_result, !.last = c_fn]
  /\ c_result' = with_ledger(c_result.ledger, LocSet_new)
  /\ c_pc' = "overlaps"
  /\ UNCHANGED not_call_vars

\* The locations a search may pivot on: the first and the last unset one.
PivotLocs(ledger) ==
  {LocSet_item_at(ledger.unset, 0), LocSet_item_at(ledger.unset, LocSet_len(ledger.unset) - 1)}

\* assign_and_apply_implications is called with a numeral possible at an
\* unset location, and has made its assign_blindly.
CallAssignAndApply ==
  /\ c_pc = "returned"
  /\ c_result.ok
  /\ ~is_complete(c_result.ledger)
  /\ c_arg.assigned < MaxAssigned
  /\ \E loc \in PivotLocs(c_result.ledger) :
       \E num \in remaining_nums(c_result.ledger.asgmts, loc) :
         c_result' = with_ledger(assign_blindly(c_result.ledger, num, loc), LocSet_new)
  /\ c_fn' = "assign_and_apply_implications"
  /\ c_arg' = [c_arg EXCEPT !.before = c_result, !.last = c_fn, !.assigned = @ + 1]
  /\ c_pc' = "overlaps"
  /\ UNCHANGED not_call_vars

\* What the body of eliminate_by_overlaps's for loops leaves for the pair i,
\* from its result r: `?` returns from apply_implications; after the last
\* pair the while loop takes another turn or is left.
after_overlaps(r, i) ==
  IF ~r.ok THEN [pc |-> "returned", result |-> NoResult]
  ELSE IF i < 26
  THEN [pc |-> "overlaps",
        result |-> [with_ledger(r.ledger, LocSet_new) EXCEPT !.i = i + 1,
                                                             !.keep_going = r.keep_going]]
  ELSE [pc |-> IF r.keep_going THEN "overlaps" ELSE "ones",
        result |-> with_ledger(r.ledger, LocSet_new)]

\* The body of eliminate_by_overlaps's for loops for one (numeral, band)
\* pair.
OverlapsInBand ==
  /\ c_pc = "overlaps"
  /\ \E r \in {overlaps_body([ok |-> TRUE, ledger |-> c_result.ledger,
                               keep_going |-> c_result.keep_going], c_result.i)} :
       /\ c_result' = after_overlaps(r, c_result.i).result
       /\ c_pc' = after_overlaps(r, c_result.i).pc
  /\ UNCHANGED <<c_fn, c_arg>>
  /\ UNCHANGED not_call_vars

\* What the rest of a turn of apply_implications's loop leaves.
after_ones(r) ==
  IF ~r.ok THEN [pc |-> "returned", result |-> NoResult]
  ELSE IF r.returned
  THEN [pc |-> "returned", result |-> with_ledger(r.ledger, r.twos)]
  ELSE [pc |-> "overlaps", result |-> with_ledger(r.ledger, LocSet_new)]

\* The rest of a turn of apply_implications's loop, after
\* eliminate_by_overlaps: ones_and_twos, the return or
\* eliminate_peers_in_same_band.
OnesAndTwos ==
  /\ c_pc = "ones"
  /\ \E sd \in {singles_and_doubles(c_result.ledger.asgmts)} :
       \E r \in {implications_of_singles(c_result.ledger, sd)} :
         /\ c_result' = after_ones(r).result
         /\ c_pc' = after_ones(r).pc
  /\ UNCHANGED <<c_fn, c_arg>>
  /\ UNCHANGED not_call_vars

NextLedger ==
  LedgerNew \/ CallApplyImplications \/ CallAssignAndApply \/ OverlapsInBand \/ OnesAndTwos

SpecLedger == InitLedger /\ [][NextLedger]_vars

\* The ledger has one numeral left at each location that is not unset,
\* and that numeral at none of the location's peers.
set_locs_are_settled(ledger) ==
  \A loc \in Locs :
    ~LocSet_contains(ledger.unset, loc) =>
      \E n \in Nums :
        /\ remaining_nums(ledger.asgmts, loc) = {n}
        /\ \A peer \in Locs : LocSet_contains(Loc_peers(loc), peer) =>
                                ~AsgmtSet_contains(ledger.asgmts, n, peer)

\* C24: in the ledger of every Ledger::new, apply_implications and
\* assign_and_apply_implications that returned Ok, each location not in
\* `unset` has exactly one candidate numeral, which is a candidate at none of
\* the location's 20 peers.
C24_SetLocsAreSettled ==
  c_pc = "returned" /\ c_fn \in {"new", "apply_implications", "assign_and_apply_implications"}
    /\ c_result.ok => set_locs_are_settled(c_result.ledger)

\* An assignment made in a search has settled locations that were unset
\* before, and others are left unset.
C24_Witness ==
  /\ c_pc = "returned"
  /\ c_fn = "assign_and_apply_implications"
  /\ c_result.ok
  /\ LocSet_len(c_result.ledger.unset) + 2 <= LocSet_len(c_arg.before.ledger.unset)
  /\ ~is_complete(c_result.ledger)
  /\ \A loc \in Locs : Cardinality({peer \in Locs : LocSet_contains(Loc_peers(loc), peer)}) = 20


\* C25: an apply_implications called right after an apply_implications (by
\* itself or within assign_and_apply_implications) that returned Ok returns
\* Ok with the same twos and leaves asgmts, old_asgmts and unset as they were.
C25_ApplyImplicationsIdempotent ==
  c_pc = "returned" /\ c_fn = "apply_implications"
    /\ c_arg.last \in {"apply_implications", "assign_and_apply_implications"}
    => /\ c_result.ok
       /\ c_result.twos = c_arg.before.twos
       /\ c_result.ledger.asgmts = c_arg.before.ledger.asgmts
       /\ c_result.ledger.old_asgmts = c_arg.before.ledger.old_asgmts
       /\ c_result.ledger.unset = c_arg.before.ledger.unset

\* A second apply_implications has returned on a ledger with locations
\* unset, two numerals left at some of them.
C25_Witness ==
  /\ c_pc = "returned"
  /\ c_fn = "apply_implications"
  /\ c_arg.last = "apply_implications"
  /\ c_result.ok
  /\ ~is_complete(c_result.ledger)
  /\ ~LocSet_is_empty(c_result.twos)

\* ---------------------------------------- apply_implications comes to an end

\* The loops of a running call go on.
SpecLedgerFair == SpecLedger /\ WF_vars(OverlapsInBand) /\ WF_vars(OnesAndTwos)

\* The candidate assignments left in a ledger.
num_candidates(ledger) ==
  Cardinality({a \in Nums \X Locs : AsgmtSet_contains(ledger.asgmts, a[1], a[2])})

\* No (numeral, band) word of asgmts differs from its snapshot.
no_word_differs(ledger) ==
  \A num \in Nums : \A band \in 0..2 :
    band_locs(ledger.asgmts, num, band) = band_locs(ledger.old_asgmts, num, band)

\* The peers of a location in its own row-band.
same_band_peers(loc) ==
  {peer \in Locs : LocSet_contains(Loc_peers(loc), peer)
                   /\ const_row_band(peer) = const_row_band(loc)}

\* Each unset location with one numeral left has a same-band peer where
\* that numeral is left too.
ones_have_peers(ledger) ==
  \A loc \in Locs :
    LocSet_contains(ledger.unset, loc) =>
      \A n \in Nums :
        remaining_nums(ledger.asgmts, loc) = {n} =>
          \E peer \in same_band_peers(loc) : AsgmtSet_contains(ledger.asgmts, n, peer)

\* A turn of apply_implications's loop that does not return takes away a
\* candidate.
turn_removes_candidate ==
  c_pc = "ones" /\ c_pc' = "overlaps"
    => num_candidates(c_result'.ledger) < num_candidates(c_result.ledger)

\* eliminate_by_overlaps's loop is left only when no (numeral, band) word
\* differs from its snapshot; and a turn in which none has differed so far
\* changes nothing at the next pair, and leaves the loop after the last.
overlaps_stop_at_snapshot ==
  /\ c_pc' = "ones" => no_word_differs(c_result'.ledger)
  /\ c_pc = "overlaps" /\ ~c_result.keep_going /\ no_word_differs(c_result.ledger)
       => /\ c_result'.ledger = c_result.ledger
          /\ ~c_result'.keep_going
          /\ c_pc' = (IF c_result.i = 26 THEN "ones" ELSE "overlaps")

\* C29: apply_implications terminates: every call returns; each turn of its
\* loop that does not return removes a candidate assignment, an unset
\* location with a single candidate having that numeral at a same-band peer;
\* and eliminate_by_overlaps's loop stops once no (numeral, band) word
\* differs from its snapshot.
C29_ApplyImplicationsTerminates ==
  /\ (c_pc \in {"overlaps", "ones"}) ~> (c_pc = "returned")
  /\ [](c_pc = "ones" => ones_have_peers(c_result.ledger))
  /\ [][turn_removes_candidate /\ overlaps_stop_at_snapshot]_vars

\* A call has returned Ok whose loop took more than one turn: a location
\* that was unset at the call, with several numerals left, is unset no more.
C29_Witness ==
  /\ c_pc = "returned"
  /\ c_fn = "assign_and_apply_implications"
  /\ c_result.ok
  /\ \E loc \in Locs :
       /\ LocSet_contains(c_arg.before.ledger.unset, loc)
       /\ Cardinality(remaining_nums(c_arg.before.ledger.asgmts, loc)) >= 3
       /\ ~LocSet_contains(c_result.ledger.unset, loc)


\* ------------------------------------------ Searcher::run with a budget

\* The largest max_pivots a run is called with.
MaxBudget == 3

\* run's max_pivots: None or Some(k).
Budgets == {<<>>} \cup {<<k>> : k \in 0..MaxBudget}

\* The helpers that decide in one way only.
SteadyHelpers == {"DefaultHelper", "JczHelper"}

\* A searcher is made for the clues, and run is called on it again and
\* again: c_arg is the running call's max_pivots, c_result what the last call
\* returned, `count` the running call's local, and summary.solutions what
\* the calls so far have left in `found`.
InitBudget ==
  /\ GenIdle
  /\ RestIdleBut("call")
  /\ pc = "new"
  /\ clues \in Puzzles
  /\ helper \in SteadyHelpers
  /\ max_solutions = 0
  /\ searcher = NoSearcher
  /\ summary = NoSummary
  /\ count = 0
  /\ c_pc = "idle"
  /\ c_fn = "run"
  /\ c_arg = <<>>
  /\ c_result = 0

BudgetNew ==
  /\ pc = "new"
  /\ searcher' \in new_searcher(helper, SearcherFactory_new(clues))
  /\ summary' = [clues |-> clues, too_many_solutions |-> FALSE, solutions |-> <<>>]
  /\ pc' = "searcher"
  /\ UNCHANGED <<clues, max_solutions, helper, count>>
  /\ UNCHANGED not_solve_vars

\* run(max_pivots) is called, and is at the test of its loop.
BudgetCall ==
  /\ pc = "searcher"
  /\ c_pc \in {"idle", "returned"}
  /\ c_arg' \in Budgets
  /\ searcher' = [searcher EXCEPT !.found = <<>>]
  /\ count' = 0
  /\ c_pc' = "called"
  /\ UNCHANGED <<pc, clues, max_solutions, helper, summary, c_fn, c_result>>
  /\ UNCHANGED <<gen_vars, perm_vars, min_vars, str_vars, deduce_vars>>

\* One turn of run's loop.
BudgetTurn ==
  /\ c_pc = "called"
  /\ searcher.stack # <<>>
  /\ within_budget(c_arg, count)
  /\ \E r \in run_turn(helper, searcher) :
       /\ searcher' = r.s
       /\ c_pc' = IF r.break THEN "break" ELSE "called"
  /\ count' = count + 1
  /\ UNCHANGED <<pc, clues, max_solutions, helper, summary, c_fn, c_arg, c_result>>
  /\ UNCHANGED <<gen_vars, perm_vars, min_vars, str_vars, deduce_vars>>

\* run returns its count; the caller keeps what is in `found`.
BudgetReturn ==
  /\ \/ c_pc = "break"
     \/ c_pc = "called" /\ (searcher.stack = <<>> \/ ~within_budget(c_arg, count))
  /\ searcher' = [searcher EXCEPT !.total_pivots = @ + count]
  /\ c_result' = count
  /\ summary' = [summary EXCEPT !.solutions = @ \o searcher.found]
  /\ c_pc' = "returned"
  /\ UNCHANGED <<pc, clues, max_solutions, helper, count, c_fn, c_arg>>
  /\ UNCHANGED <<gen_vars, perm_vars, min_vars, str_vars, deduce_vars>>

NextBudget == BudgetNew \/ BudgetCall \/ BudgetTurn \/ BudgetReturn

SpecBudget == InitBudget /\ [][NextBudget]_vars

\* The searcher Searcher::new makes for the clues.
searcher_of(grid, helper_) == CHOOSE s \in new_searcher(helper_, SearcherFactory_new(grid)) : TRUE

\* C21: every run(Some(k)) returns a count of at most k; and what the calls
\* made so far, with whatever budgets, have left in `found`, followed by what
\* run(None) calls would find from the searcher as it is, is what run(None)
\* calls find from a new searcher for the same clues and helper: the same
\* solutions in the same order, none skipped and none repeated.
C21_RunResumes ==
  c_pc = "returned" =>
    /\ c_arg # <<>> => c_result <= c_arg[1]
    /\ summary.solutions \o found_by_runs(helper, searcher)
         = found_by_runs(helper, searcher_of(clues, helper))

\* A run stopped by its budget was called again, and the calls have left
\* two solutions.
C21_Witness ==
  /\ c_pc = "returned"
  /\ c_arg = <<2>>
  /\ c_result = 1
  /\ searcher.total_pivots >= 5
  /\ Len(summary.solutions) >= 2
  /\ searcher.found # <<>>


\* ------------------------------------------------- bin/min-solution's search

\* The solutions a search is run for.
MaxFound == 3

\* The clues the search is run on: the empty grid of min-solution.rs, and
\* puzzles with no solution, one and several.
LexGrids == Puzzles \cup {Grid_new}

\* A searcher with the MinimizingSearchHelper is made for the clues and
\* run(None) is called on it; main then calls `minimizing` on what the first
\* run has found.
InitLex ==
  /\ GenIdle
  /\ PermIdle
  /\ MinIdle
  /\ StrIdle
  /\ DeduceIdle
  /\ pc = "new"
  /\ clues \in LexGrids
  /\ helper = MinimizingSearchHelper
  /\ max_solutions = 0
  /\ searcher = NoSearcher
  /\ summary = NoSummary
  /\ count = 0
  /\ c_pc = "idle"
  /\ c_fn = "run"
  /\ c_arg = <<>>
  /\ c_result = 0

\* The searcher is made; what it has found already is the first solution,
\* as in `solve`.
LexNew ==
  /\ pc = "new"
  /\ \E s \in new_searcher(helper, SearcherFactory_new(clues)) :
       /\ searcher' = s
       /\ summary' = [clues |-> clues, too_many_solutions |-> FALSE, solutions |-> s.found]
  /\ pc' = "searcher"
  /\ UNCHANGED <<clues, max_solutions, helper, count>>
  /\ UNCHANGED not_solve_vars

\* run(None) is called, and is at the test of its loop.
LexCall ==
  /\ pc = "searcher"
  /\ m_pc = "idle"
  /\ c_pc = "idle" \/ (c_pc = "returned" /\ searcher.found # <<>>)
  /\ Len(summary.solutions) < MaxFound
  /\ searcher' = [searcher EXCEPT !.found = <<>>]
  /\ count' = 0
  /\ c_pc' = "called"
  /\ UNCHANGED <<pc, clues, max_solutions, helper, summary, c_fn, c_arg, c_result>>
  /\ UNCHANGED <<gen_vars, perm_vars, min_vars, str_vars, deduce_vars>>

\* main's call of GridPermutation::minimizing on the grid found.
LexMinimizing ==
  /\ c_pc = "returned"
  /\ clues = Grid_new
  /\ searcher.found # <<>>
  /\ Len(summary.solutions) = 1
  /\ m_pc = "idle"
  /\ m_pc' = "band_minimizing"
  /\ m_grid' = searcher.found[1]
  /\ m_suffix' = [i \in 1..LocSet_len(SUFFIX_LOCS) |-> 9]
  /\ UNCHANGED <<m_index, m_list, m_taken, m_best>>
  /\ UNCHANGED not_min_vars

NextLex ==
  LexNew \/ LexCall \/ BudgetTurn \/ BudgetReturn \/ LexMinimizing \/ NextMin

SpecLex == InitLex /\ [][NextLex]_vars


\* The first location where two grids differ has the lesser numeral in `a`.
lex_less(a, b) ==
  \E loc \in Locs : a[loc] < b[loc] /\ \A before \in 0..(loc - 1) : a[before] = b[before]

\* The numerals a location may take: those of none of its peers.
free_nums(grid, loc) ==
  {n \in Nums : \A peer \in Locs : LocSet_contains(Loc_peers(loc), peer) => grid[peer] # n}

RECURSIVE completions(_, _)
\* The solved grids that fill the unset locations `locs` of a grid, found
\* without a ledger.
completions(grid, locs) ==
  IF locs = {} THEN {solved \in {grid} : Grid_state(solved).state = "Solved"}
  ELSE UNION {completions([grid EXCEPT ![Min(locs)] = n], locs \ {Min(locs)}) :
                n \in free_nums(grid, Min(locs))}

\* The unset locations of the clues that are filled without a ledger.
MaxUnset == 8

unset_locs(grid) == {loc \in Locs : grid[loc] = 0}

\* C22: with the MinimizingSearchHelper (the smallest unset location, the
\* numerals ascending) the solutions that successive runs find are valid
\* solved grids that keep the clues, each lexicographically greater than the
\* one before; the first is the least of all solved grids that keep the
\* clues; and for the empty grid `minimizing` returns the first as it is.
C22_SolutionsAscend ==
  /\ \A i \in 1..Len(summary.solutions) :
       /\ Grid_state(summary.solutions[i]).state = "Solved"
       /\ \A loc \in Locs : clues[loc] # 0 => summary.solutions[i][loc] = clues[loc]
       /\ i > 1 => lex_less(summary.solutions[i - 1], summary.solutions[i])
  /\ Len(summary.solutions) >= 1 /\ Cardinality(unset_locs(clues)) <= MaxUnset
       => \A other \in completions(clues, unset_locs(clues)) :
            other = summary.solutions[1] \/ lex_less(summary.solutions[1], other)
  /\ c_pc = "returned" /\ summary.solutions = <<>> /\ Cardinality(unset_locs(clues)) <= MaxUnset
       => completions(clues, unset_locs(clues)) = {}
  /\ m_pc = "done" => m_best.min = m_grid

\* min-solution's main has come to its assert_eq.
C22_Witness ==
  /\ clues = Grid_new
  /\ m_pc = "done"
  /\ m_grid = summary.solutions[1]
  /\ c_result > 9

\* Runs have found three solutions of clues with eight locations unset.
C22_WitnessSeveral ==
  /\ Len(summary.solutions) = 3
  /\ Cardinality(unset_locs(clues)) = MaxUnset


\* The eliminations of every fact of `facts` but the one at `but` (0 leaves
\* none out), folded with `|`.
eliminations_but(facts, but) ==
  loop_over(LAMBDA r, i : IF i = but THEN r ELSE AsgmtSet_or(r, Fact_as_eliminations(facts[i])),
            AsgmtSet_new, 1, Len(facts))

\* Whether `fact` is implied by the possibilities the turn of collect's loop
\* started from, less `removed`.
implied_without(fact, locals, removed) ==
  is_implied_by(fact, AsgmtSet_minus(locals.remaining_asgmts, removed),
                SukakuMap_eliminate(locals.sukaku_map, removed))

\* The antecedents of `fact` are enough for its consequent, and none of them
\* can be left out.
sufficient_and_necessary(fact, locals) ==
  /\ implied_without(fact.consequent, locals, eliminations_but(fact.antecedents, 0))
  /\ \A j \in 1..Len(fact.antecedents) :
       ~implied_without(fact.consequent, locals, eliminations_but(fact.antecedents, j))

\* The implications the last turn of collect's loop made.
turn_implications ==
  {i \in (d_locals.start + 1)..Len(d_collector.facts) :
     d_collector.facts[i].kind = "Implication"}

\* C26: every Implication that deduce produces has antecedents that are
\* sufficient, the consequent being implied by the possibilities before the
\* turn less the antecedents' eliminations, and each one necessary, the
\* consequent no longer being implied when one antecedent's eliminations
\* are withheld.
C26_AntecedentsSufficientAndNecessary ==
  d_pc \in {"eliminate", "deduced"} =>
    \A i \in turn_implications : sufficient_and_necessary(d_collector.facts[i], d_locals)

\* A turn has made an implication with two antecedents.
C26_Witness ==
  /\ d_pc \in {"eliminate", "deduced"}
  /\ \E i \in turn_implications : Len(d_collector.facts[i].antecedents) >= 2
  /\ \A i \in turn_implications : sufficient_and_necessary(d_collector.facts[i], d_locals)


\* --------------------------------------------------- deduction is sound

\* The one solution of CollectorGrid.
CollectorSolution ==
  Grid_of(<< 7,9,2, 6,1,3, 4,8,5,   1,6,4, 8,5,2, 9,3,7,   5,8,3, 4,7,9, 2,6,1,
             4,5,6, 9,2,8, 7,1,3,   8,3,1, 7,4,5, 6,2,9,   9,2,7, 3,6,1, 5,4,8,
             2,7,8, 5,3,4, 1,9,6,   6,1,9, 2,8,7, 3,5,4,   3,4,5, 1,9,6, 8,7,2 >>)

\* Three of the 6938 solutions of HiddenPairGrid.
HiddenPairFirst ==
  Grid_of(<< 3,5,4, 6,7,8, 9,1,2,   6,7,2, 1,9,5, 3,4,8,   1,9,8, 3,4,2, 5,6,7,
             5,1,9, 7,6,4, 8,2,3,   4,2,6, 8,5,3, 7,9,1,   7,8,3, 2,1,9, 4,5,6,
             9,3,7, 5,2,1, 6,8,4,   2,6,5, 4,8,7, 1,3,9,   8,4,1, 9,3,6, 2,7,5 >>)

HiddenPairMiddle ==
  Grid_of(<< 5,3,4, 6,7,8, 9,1,2,   6,7,2, 1,9,5, 3,8,4,   1,9,8, 3,4,2, 5,6,7,
             8,5,9, 7,6,1, 4,2,3,   4,2,6, 8,5,3, 7,9,1,   7,1,3, 9,2,4, 8,5,6,
             9,6,1, 5,3,7, 2,4,8,   2,8,7, 4,1,9, 6,3,5,   3,4,5, 2,8,6, 1,7,9 >>)

HiddenPairLast ==
  Grid_of(<< 5,3,4, 8,7,6, 9,1,2,   6,7,2, 9,1,5, 3,8,4,   1,9,8, 3,4,2, 5,6,7,
             8,5,9, 7,6,1, 4,2,3,   4,6,7, 2,5,3, 8,9,1,   2,1,3, 4,9,8, 7,5,6,
             9,2,6, 5,3,7, 1,4,8,   7,8,5, 1,2,4, 6,3,9,   3,4,1, 6,8,9, 2,7,5 >>)

\* A grid that is solved but is no solution of any of DeduceGrids: the
\* solution of CollectorGrid with its first two bands of rows swapped.
SwappedSolution ==
  [loc \in Locs |-> CollectorSolution[IF loc < 27 THEN loc + 27
                                     ELSE IF loc < 54 THEN loc - 27 ELSE loc]]

SolvedGrids ==
  {CollectorSolution, HiddenPairFirst, HiddenPairMiddle, HiddenPairLast, SwappedSolution}

\* Whether two sets of assignments share one.
AsgmtSet_intersects(a, b) ==
  \E num \in Nums : ~LocSet_is_empty(Bits3x27_and(a[num], b[num]))

\* Whether the solved grid `s` is consistent with the FactFinder's state: the
\* actual assignments agree with s, and every other assignment of s is among
\* the remaining ones.
consistent_with(s, finder) ==
  \A num \in Nums :
    /\ LocSet_subset(finder.actual_asgmts[num], simple_from_grid(s)[num])
    /\ LocSet_subset(LocSet_minus(simple_from_grid(s)[num], finder.actual_asgmts[num]),
                     finder.remaining_asgmts[num])

\* What an implication concludes, or the fact itself.
RECURSIVE conclusion(_)
conclusion(fact) ==
  IF fact.kind = "Implication" THEN conclusion(fact.consequent) ELSE fact

\* Whether `fact` is true of the solved grid `s`.
sound_for(fact, s) ==
  /\ Fact_as_asgmt(fact) # <<>> =>
       s[Fact_as_asgmt(fact)[1][2]] = Fact_as_asgmt(fact)[1][1]
  /\ ~AsgmtSet_intersects(Fact_as_eliminations(fact), simple_from_grid(s))
  /\ fact.kind \notin {"NoLoc", "NoNum", "Conflict"}
  /\ conclusion(fact).kind \notin {"NoLoc", "NoNum", "Conflict"}

\* The solved grids consistent with the FactFinder.
consistent_grids == {s \in SolvedGrids : consistent_with(s, d_finder)}

\* C27: when a solved grid s is consistent with a FactFinder's state, every
\* assignment fact that deduce returns names an assignment of s, no fact's
\* as_eliminations holds an assignment of s, no NoLoc, NoNum or Conflict is
\* returned, and apply_fact of any returned fact leaves s consistent with
\* the state.
C27_DeductionSound ==
  d_pc = "deduced" =>
    \A s \in consistent_grids :
      \A i \in 1..Len(d_collector.facts) :
        /\ sound_for(d_collector.facts[i], s)
        /\ consistent_with(s, apply_fact(d_finder, d_collector.facts[i]))

\* deduce has returned assignments and eliminations for a FactFinder that
\* a fact was applied to, and two solved grids are consistent with it.
C27_Witness ==
  /\ d_pc = "deduced"
  /\ d_applied = 1
  /\ Cardinality(consistent_grids) >= 2
  /\ \E i \in 1..Len(d_collector.facts) : Fact_as_asgmt(d_collector.facts[i]) # <<>>
  /\ \E i \in 1..Len(d_collector.facts) :
       /\ conclusion(d_collector.facts[i]).kind \in {"Overlap", "LockedSet"}
       /\ Fact_as_eliminations(d_collector.facts[i]) # AsgmtSet_new

\* deduce has returned for CollectorGrid, whose one solution is consistent
\* with the FactFinder.
C27_WitnessOneSolution ==
  /\ d_pc = "deduced"
  /\ consistent_grids = {CollectorSolution}
  /\ d_collector.facts # <<>>

====
